---- MODULE Spec2Model ----
(***************************************************************************)
(* A model of the financial-sheet analysis core of src/tools/sheet.py      *)
(* (class SheetAnalyzer): value parsing, header location, table building,  *)
(* row classification, component resolution, trend analysis and chart     *)
(* planning.                                                               *)
(*                                                                         *)
(* Text is modelled by TLA+ strings, inspected character by character with *)
(* Len, SubSeq, Head, Tail and \o.  A cell of a pandas DataFrame is one of *)
(*   [nan |-> TRUE]   a missing value (None / NaN),                        *)
(*   [num |-> n]      a float; every number of the model is whole,         *)
(*   [str |-> s]      a Python str.                                        *)
(***************************************************************************)
EXTENDS Integers, Sequences, FiniteSets, TLC

VARIABLES
    pc,          \* position of the run that the specification in force models
    data,        \* Trend Analyzer: the pd.Series handed to _calculate_movements
    movements,   \* Trend Analyzer: the dict _calculate_movements returns
    all_values,  \* the raw grid: worksheet.get_all_values()
    header_info, \* Header Locator: the dict identify_header_row returns
    dataframe,   \* Table Builder: the DataFrame extract_dataframe returns
    args,        \* the arguments of the analysis entry point and the sheet's formulas
    all_numeric_rows,  \* Row Classifier: the list identify_all_numeric_rows returns
    charts,      \* Chart Planner: what _create_chart_for_row drew, per analysed row
    lookups,     \* Component Resolver: the sheet rows of the formula lookups issued so far
    raw_value,   \* Value Parser: the cell value handed to the parser
    parsed       \* Value Parser: the copy of the parser that ran and what it returned

trendVars == <<data, movements>>
headerVars == <<all_values, header_info>>
analysisVars == <<args, all_numeric_rows, charts, lookups>>
parserVars == <<raw_value, parsed>>
vars == <<pc, trendVars, headerVars, dataframe, analysisVars, parserVars>>

\* the value of a variable that the specification in force does not use
Unused == [unused |-> TRUE]

-----------------------------------------------------------------------------
(* Cells *)

Null == [nan |-> TRUE]
Num(n) == [num |-> n]
Str(s) == [str |-> s]
IsNull(c) == "nan" \in DOMAIN c
IsNum(c) == "num" \in DOMAIN c
IsStr(c) == "str" \in DOMAIN c

\* an exception raised by the code where a value was expected
Raise == [raise |-> TRUE]

(* Exact fractions, for the quotients that the code computes in floats *)
Rat(n, d) == [n |-> n, d |-> d]
RatEq(a, b) == a.n * b.d = b.n * a.d
RatSign(a) == IF a.n = 0 THEN 0 ELSE IF (a.n > 0) = (a.d > 0) THEN 1 ELSE -1

RECURSIVE SumSeq(_)
SumSeq(s) == IF s = <<>> THEN 0 ELSE Head(s) + SumSeq(Tail(s))

-----------------------------------------------------------------------------
(* Text: the str methods and regular expressions that the code uses *)

UpperLetters == <<"A","B","C","D","E","F","G","H","I","J","K","L","M",
                  "N","O","P","Q","R","S","T","U","V","W","X","Y","Z">>
LowerLetters == <<"a","b","c","d","e","f","g","h","i","j","k","l","m",
                  "n","o","p","q","r","s","t","u","v","w","x","y","z">>
Digits == {"0","1","2","3","4","5","6","7","8","9"}

IsUpperChar(c) == \E i \in 1..26 : UpperLetters[i] = c
IsLowerChar(c) == \E i \in 1..26 : LowerLetters[i] = c
IsDigit(c) == c \in Digits
IsSpace(c) == c = " "

LowerChar(c) ==
    IF IsUpperChar(c) THEN LowerLetters[CHOOSE i \in 1..26 : UpperLetters[i] = c] ELSE c
UpperChar(c) ==
    IF IsLowerChar(c) THEN UpperLetters[CHOOSE i \in 1..26 : LowerLetters[i] = c] ELSE c

CharAt(s, i) == SubSeq(s, i, i)

\* str.lower() and str.upper()
RECURSIVE Lower(_)
Lower(s) == IF s = "" THEN "" ELSE LowerChar(Head(s)) \o Lower(Tail(s))
RECURSIVE Upper(_)
Upper(s) == IF s = "" THEN "" ELSE UpperChar(Head(s)) \o Upper(Tail(s))

\* str.isupper(): some cased character, and no lower-case one
IsUpper(s) ==
    /\ \E i \in 1..Len(s) : IsUpperChar(CharAt(s, i))
    /\ \A i \in 1..Len(s) : ~IsLowerChar(CharAt(s, i))

\* str.strip()
RECURSIVE LStrip(_)
LStrip(s) == IF s # "" /\ IsSpace(Head(s)) THEN LStrip(Tail(s)) ELSE s
RECURSIVE RStrip(_)
RStrip(s) ==
    IF s # "" /\ IsSpace(CharAt(s, Len(s))) THEN RStrip(SubSeq(s, 1, Len(s) - 1)) ELSE s
Strip(s) == RStrip(LStrip(s))

\* `k in s` for two str
Contains(s, k) == \E i \in 1..(Len(s) - Len(k) + 1) : SubSeq(s, i, i + Len(k) - 1) = k
StartsWith(s, k) == Len(s) >= Len(k) /\ SubSeq(s, 1, Len(k)) = k
EndsWith(s, k) == Len(s) >= Len(k) /\ SubSeq(s, Len(s) - Len(k) + 1, Len(s)) = k

\* str.replace(k, ""), for a single character k
RECURSIVE RemoveChar(_, _)
RemoveChar(s, k) ==
    IF s = "" THEN ""
    ELSE IF Head(s) = k THEN RemoveChar(Tail(s), k)
    ELSE Head(s) \o RemoveChar(Tail(s), k)

\* any(k in s for k in keywords)
ContainsAny(s, keywords) == \E k \in keywords : Contains(s, k)

\* the least element of a non-empty set of integers
Least(S) == CHOOSE i \in S : \A j \in S : i <= j

-----------------------------------------------------------------------------
(* Header Locator *)

\* month_patterns: one set of alternatives per regular expression
month_patterns ==
    <<{"jan", "january"}, {"feb", "february"}, {"mar", "march"}, {"apr", "april"},
      {"may"}, {"jun", "june"}, {"jul", "july"}, {"aug", "august"},
      {"sep", "september"}, {"oct", "october"}, {"nov", "november"}, {"dec", "december"}>>

\* some month pattern is found by re.search in the text
SearchMonth(text) ==
    \E k \in 1..Len(month_patterns) : ContainsAny(text, month_patterns[k])

QuarterDigits == {"1", "2", "3", "4"}

\* re.search(r'q[1-4]', text)
SearchQn(text) ==
    \E i \in 1..(Len(text) - 1) :
        CharAt(text, i) = "q" /\ CharAt(text, i + 1) \in QuarterDigits

\* re.search(r'quarter\s*[1-4]', text)
SearchQuarterN(text) ==
    \E i \in 1..(Len(text) - 7) :
        /\ SubSeq(text, i, i + 6) = "quarter"
        /\ \E j \in (i + 7)..Len(text) :
              /\ CharAt(text, j) \in QuarterDigits
              /\ \A k \in (i + 7)..(j - 1) : IsSpace(CharAt(text, k))

\* some quarter pattern is found by re.search in the text
SearchQuarter(text) == SearchQn(text) \/ SearchQuarterN(text)

\* the start positions of the matches of prefix + \d{2} in the text
CenturyMatches(text, prefix) ==
    {i \in 1..(Len(text) - 3) :
        /\ SubSeq(text, i, i + 1) = prefix
        /\ IsDigit(CharAt(text, i + 2))
        /\ IsDigit(CharAt(text, i + 3))}

\* year_patterns = [r'20\d{2}', r'19\d{2}'], tried in this order: the text of the
\* first match, a cell; Null when neither pattern matches
SearchYear(text) ==
    IF CenturyMatches(text, "20") # {}
    THEN LET i == Least(CenturyMatches(text, "20")) IN Str(SubSeq(text, i, i + 3))
    ELSE IF CenturyMatches(text, "19") # {}
    THEN LET i == Least(CenturyMatches(text, "19")) IN Str(SubSeq(text, i, i + 3))
    ELSE Null

InSeq(x, sq) == \E i \in 1..Len(sq) : sq[i] = x

\* the loop of _extract_periods_from_row over the cells of the row, from cell k
RECURSIVE ExtractPeriodsLoop(_, _, _)
ExtractPeriodsLoop(row, k, acc) ==
    IF k > Len(row) THEN acc
    ELSE LET cell == row[k]
             cell_lower == Strip(Lower(cell))
             a1 == IF SearchMonth(cell_lower)
                   THEN [acc EXCEPT !.periods = Append(@, cell), !.period_type = "monthly"]
                   ELSE acc
             a2 == IF SearchQuarter(cell_lower)
                   THEN [a1 EXCEPT !.periods = Append(@, cell), !.period_type = "quarterly"]
                   ELSE a1
             y == SearchYear(cell_lower)
             a3 == IF IsStr(y)
                   THEN [a2 EXCEPT !.year = y,
                                   !.periods = IF InSeq(cell, @) THEN @ ELSE Append(@, cell)]
                   ELSE a2
         IN ExtractPeriodsLoop(row, k + 1, a3)

ExtractPeriodsFromRow(row) ==
    LET r == ExtractPeriodsLoop(row, 1,
                 [periods |-> <<>>, period_type |-> "unknown", year |-> Null])
    IN [is_period_header |-> Len(r.periods) >= 2 \/ (Len(r.periods) = 1 /\ IsStr(r.year)),
        periods |-> r.periods,
        period_type |-> r.period_type,
        year |-> r.year]

\* the steps of the loop of _analyze_row_content on one non-blank cell: the
\* year patterns, the month patterns, the quarter patterns
CountYear(acc, y) ==
    IF IsStr(y)
    THEN [acc EXCEPT !.total_cells = @ + 1, !.year_count = @ + 1,
                     !.year = IF IsStr(@) THEN @ ELSE y]
    ELSE [acc EXCEPT !.total_cells = @ + 1]
CountMonth(acc, cell_lower) ==
    IF SearchMonth(cell_lower)
    THEN [acc EXCEPT !.period_count = @ + 1, !.period_type = "monthly"]
    ELSE acc
CountQuarter(acc, cell_lower) ==
    IF SearchQuarter(cell_lower)
    THEN [acc EXCEPT !.period_count = @ + 1, !.period_type = "quarterly"]
    ELSE acc
CountCell(acc, cell_str) ==
    IF cell_str = "" THEN acc
    ELSE CountQuarter(CountMonth(CountYear(acc, SearchYear(cell_str)),
                                 Lower(cell_str)),
                      Lower(cell_str))

\* the loop of _analyze_row_content over the cells of the row, from cell k
RECURSIVE AnalyzeRowLoop(_, _, _)
AnalyzeRowLoop(row, k, acc) ==
    IF k > Len(row) THEN acc
    ELSE AnalyzeRowLoop(row, k + 1, CountCell(acc, Strip(row[k])))

RowContent(r) ==
    [has_only_years |-> r.year_count > 0 /\ r.period_count = 0
                          /\ 2 * r.year_count >= r.total_cells,
     has_only_periods |-> r.period_count > 0 /\ r.year_count = 0
                          /\ 2 * r.period_count >= r.total_cells,
     year_count |-> r.year_count,
     period_count |-> r.period_count,
     total_cells |-> r.total_cells,
     year |-> r.year,
     period_type |-> r.period_type]

AnalyzeRowContent(row) ==
    RowContent(AnalyzeRowLoop(row, 1,
                 [year_count |-> 0, period_count |-> 0, total_cells |-> 0,
                  year |-> Null, period_type |-> "unknown"]))

\* the period cells that _combine_multi_row_header joins with the year
CombinablePeriods ==
    {"jan", "feb", "mar", "apr", "may", "jun",
     "jul", "aug", "sep", "oct", "nov", "dec", "full year"}

Max(a, b) == IF a >= b THEN a ELSE b

\* row + [''] * (n - len(row))
PadRow(row, n) == [i \in 1..n |-> IF i <= Len(row) THEN row[i] ELSE ""]

\* the text that an f-string shows for the year argument (None when no year
\* was detected)
YearText(year) == IF IsStr(year) THEN year.str ELSE "None"

\* one column of the combined header (i is 1-based: the code's i == 0 is i = 1)
CombinedCell(i, year_cell_raw, period_cell_raw, year) ==
    LET year_cell == Strip(year_cell_raw)
        period_cell == Strip(period_cell_raw)
    IN IF i = 1 THEN (IF year_cell # "" THEN year_cell ELSE period_cell)
       ELSE IF period_cell # "" /\ Lower(period_cell) \in CombinablePeriods
       THEN IF Lower(period_cell) = "full year"
            THEN "Full Year " \o YearText(year)
            ELSE Upper(period_cell) \o " " \o YearText(year)
       ELSE (IF year_cell # "" THEN year_cell ELSE period_cell)

CombineMultiRowHeader(year_row, period_row, year) ==
    LET max_length == Max(Len(year_row), Len(period_row))
        year_row_padded == PadRow(year_row, max_length)
        period_row_padded == PadRow(period_row, max_length)
    IN [i \in 1..max_length |->
            CombinedCell(i, year_row_padded[i], period_row_padded[i], year)]

\* `not row or all(cell.strip() == '' for cell in row)`
IsBlankRow(row) == \A k \in 1..Len(row) : Strip(row[k]) = ""

\* the test of the first loop of _analyze_header_candidates on one row
IsSingleRowHeader(row) ==
    /\ ~IsBlankRow(row)
    /\ LET period_info == ExtractPeriodsFromRow(row)
       IN period_info.is_period_header /\ Len(period_info.periods) >= 3
          /\ IsStr(period_info.year)

\* the two tests of the second loop on the rows at 1-based positions i, i + 1
YearsThenPeriods(grid, i) ==
    /\ grid[i] # <<>> /\ grid[i + 1] # <<>>
    /\ AnalyzeRowContent(grid[i]).has_only_years
    /\ AnalyzeRowContent(grid[i + 1]).has_only_periods
    /\ AnalyzeRowContent(grid[i + 1]).period_count >= 3

PeriodsThenYears(grid, i) ==
    /\ grid[i] # <<>> /\ grid[i + 1] # <<>>
    /\ AnalyzeRowContent(grid[i + 1]).has_only_years
    /\ AnalyzeRowContent(grid[i]).has_only_periods
    /\ AnalyzeRowContent(grid[i]).period_count >= 3

\* the rows that the first loop of _analyze_header_candidates accepts, the pairs
\* that its second loop accepts, and the rows that its last loop accepts
SingleRowHeaders(grid) == {i \in 1..Len(grid) : IsSingleRowHeader(grid[i])}
MultiRowHeaders(grid) ==
    {i \in 1..(Len(grid) - 1) : YearsThenPeriods(grid, i) \/ PeriodsThenYears(grid, i)}
\* a variant of the last loop that accepts blank rows too
NonBlankRowsOrBlank(grid) == 1..Len(grid)
NonBlankRows(grid) == {i \in 1..Len(grid) : ~IsBlankRow(grid[i])}

\* what the first loop returns for the row at 1-based position i
SingleRowResult(row, i) ==
    [row_index |-> i - 1,
     header_row |-> row,
     periods |-> ExtractPeriodsFromRow(row).periods,
     period_type |-> ExtractPeriodsFromRow(row).period_type,
     year |-> ExtractPeriodsFromRow(row).year]

\* what the second loop returns for a year row and a period row, the period
\* row at 0-based index row_index
MultiRowResult(year_row, period_row, row_index) ==
    [row_index |-> row_index,
     header_row |-> CombineMultiRowHeader(year_row, period_row,
                                          AnalyzeRowContent(year_row).year),
     periods |-> Tail(CombineMultiRowHeader(year_row, period_row,
                                            AnalyzeRowContent(year_row).year)),
     period_type |-> AnalyzeRowContent(period_row).period_type,
     year |-> AnalyzeRowContent(year_row).year]

\* what the last loop returns for the row at 1-based position i
LastResortResult(row, i) ==
    [row_index |-> i - 1, header_row |-> row, periods |-> <<>>,
     period_type |-> "unknown", year |-> Null]

NoHeaderResult ==
    [row_index |-> 0, header_row |-> <<>>, periods |-> <<>>,
     period_type |-> "unknown", year |-> Null]

\* _analyze_header_candidates; row_index is the code's 0-based index
AnalyzeHeaderCandidates(grid) ==
    IF SingleRowHeaders(grid) # {}
    THEN CHOOSE r \in {SingleRowResult(grid[i], i) : i \in {Least(SingleRowHeaders(grid))}} : TRUE
    ELSE IF MultiRowHeaders(grid) # {}
    THEN CHOOSE r \in {IF YearsThenPeriods(grid, i)
                       THEN MultiRowResult(grid[i], grid[i + 1], i)
                       ELSE MultiRowResult(grid[i + 1], grid[i], i - 1)
                       : i \in {Least(MultiRowHeaders(grid))}} : TRUE
    ELSE IF NonBlankRows(grid) # {}
    THEN CHOOSE r \in {LastResortResult(grid[i], i) : i \in {Least(NonBlankRows(grid))}} : TRUE
    ELSE NoHeaderResult

-----------------------------------------------------------------------------
(* Numbers in text *)

DigitSeq == <<"0", "1", "2", "3", "4", "5", "6", "7", "8", "9">>
DigitValue(c) == (CHOOSE i \in 1..10 : DigitSeq[i] = c) - 1
AllDigits(s) == \A i \in 1..Len(s) : IsDigit(CharAt(s, i))

\* int() of a string of digits
RECURSIVE DigitsToInt(_)
DigitsToInt(s) ==
    IF s = "" THEN 0
    ELSE DigitsToInt(SubSeq(s, 1, Len(s) - 1)) * 10 + DigitValue(CharAt(s, Len(s)))

\* the position of the decimal point of an unsigned decimal, 0 when it has none
PointAt(s) ==
    IF \E i \in 1..Len(s) : CharAt(s, i) = "." 
    THEN Least({i \in 1..Len(s) : CharAt(s, i) = "."}) ELSE 0

\* an unsigned decimal that float() accepts: digits, with at most one point and
\* at least one digit ("12", "12.", "12.0", ".5")
IsUnsignedDecimal(s) ==
    LET p == PointAt(s)
    IN IF p = 0 THEN s # "" /\ AllDigits(s)
       ELSE /\ AllDigits(SubSeq(s, 1, p - 1))
            /\ AllDigits(SubSeq(s, p + 1, Len(s)))
            /\ Len(s) >= 2

\* the whole part of an unsigned decimal (the model draws no text with a
\* fraction other than zero)
UnsignedValue(s) ==
    LET p == PointAt(s)
    IN IF p = 0 THEN DigitsToInt(s) ELSE DigitsToInt(SubSeq(s, 1, p - 1))

\* float(text): a number cell, or Null where Python raises ValueError
ToFloat(text) ==
    LET t == Strip(text)
        signed == t # "" /\ Head(t) \in {"-", "+"}
        body == IF signed THEN Tail(t) ELSE t
    IN IF IsUnsignedDecimal(body)
       THEN Num(IF signed /\ Head(t) = "-" THEN 0 - UnsignedValue(body)
                ELSE UnsignedValue(body))
       ELSE Null

\* str(value) of a cell: the text itself, "None" for None, and the repr of a
\* whole float ("5.0")
CellText(c) ==
    IF IsStr(c) THEN c.str
    ELSE IF IsNum(c) THEN ToString(c.num) \o ".0"
    ELSE "None"

-----------------------------------------------------------------------------
(* Table Builder *)

\* pd.DataFrame(): no rows and no columns
EmptyDataFrame == [columns |-> <<>>, index |-> <<>>, rows |-> <<>>]

\* df.empty
IsEmptyDf(df) == Len(df.rows) = 0 \/ Len(df.columns) = 0

\* the elements of sq at the positions in S, in order
RECURSIVE SelectPositions(_, _, _)
SelectPositions(sq, S, k) ==
    IF k > Len(sq) THEN <<>>
    ELSE IF k \in S THEN <<sq[k]>> \o SelectPositions(sq, S, k + 1)
    ELSE SelectPositions(sq, S, k + 1)

MaxLenOf(rows) ==
    IF rows = <<>> THEN 0
    ELSE CHOOSE n \in {Len(rows[i]) : i \in 1..Len(rows)} :
            \A i \in 1..Len(rows) : Len(rows[i]) <= n

\* pd.DataFrame(data_rows, columns=header) for lists of str: short rows are
\* filled with None up to the longest row; pandas raises ValueError when the
\* longest row and the header differ in length
NewDataFrame(data_rows, header) ==
    IF data_rows = <<>>
    THEN [columns |-> header, index |-> <<>>, rows |-> <<>>]
    ELSE IF MaxLenOf(data_rows) # Len(header) THEN Raise
    ELSE [columns |-> header,
          index |-> [i \in 1..Len(data_rows) |-> i - 1],
          rows |-> [i \in 1..Len(data_rows) |->
                      [c \in 1..Len(header) |->
                          IF c <= Len(data_rows[i]) THEN Str(data_rows[i][c]) ELSE Null]]]

\* df.dropna(how='all'): the rows that hold some value that is not None / NaN
DropNaRows(df) ==
    LET keep == {i \in 1..Len(df.rows) :
                    \E c \in 1..Len(df.columns) : ~IsNull(df.rows[i][c])}
    IN [df EXCEPT !.rows = SelectPositions(df.rows, keep, 1),
                  !.index = SelectPositions(df.index, keep, 1)]

\* df.dropna(axis=1, how='all')
DropNaColumns(df) ==
    LET keep == {c \in 1..Len(df.columns) :
                    \E i \in 1..Len(df.rows) : ~IsNull(df.rows[i][c])}
    IN [df EXCEPT !.columns = SelectPositions(df.columns, keep, 1),
                  !.rows = [i \in 1..Len(df.rows) |-> SelectPositions(df.rows[i], keep, 1)]]

\* df.columns = [str(col).strip() for col in df.columns]
StripColumns(df) ==
    [df EXCEPT !.columns = [c \in 1..Len(df.columns) |-> Strip(df.columns[c])]]

\* the values that the conversion replaces by NaN before pd.to_numeric
NaTexts == {"", "nan", "NaN"}

\* pd.to_numeric of one cell after the replacement: a number, NaN, or Raise
ToNumericCell(c) ==
    IF IsNull(c) THEN Null
    ELSE IF IsNum(c) THEN c
    ELSE IF c.str \in NaTexts THEN Null
    ELSE IF IsNum(ToFloat(c.str)) THEN ToFloat(c.str)
    ELSE Raise

\* the loop `for col in df.columns` of _clean_dataframe on column c: a column
\* with a blank name is skipped; df[col] of a name that occurs twice is a
\* DataFrame, for which pd.to_numeric raises TypeError; a column with a cell
\* that is no number raises ValueError; both leave the column as it is
ColumnConverts(df, c) ==
    /\ df.columns[c] # "" /\ Strip(df.columns[c]) # ""
    /\ \A d \in 1..Len(df.columns) : d # c => df.columns[d] # df.columns[c]
    /\ \A i \in 1..Len(df.rows) : ToNumericCell(df.rows[i][c]) # Raise

ConvertNumericColumns(df) ==
    [df EXCEPT !.rows =
        [i \in 1..Len(df.rows) |->
            [c \in 1..Len(df.columns) |->
                IF ColumnConverts(df, c) THEN ToNumericCell(df.rows[i][c])
                ELSE df.rows[i][c]]]]

-----------------------------------------------------------------------------
(* Header Hierarchy Resolver *)

financial_keywords ==
    {"revenue", "sales", "income", "profit", "loss", "margin", "cost", "expense",
     "gross", "operating", "net", "ebitda", "ebit", "cash", "flow", "earnings",
     "assets", "liabilities", "equity", "debt", "capital", "marketing", "cac",
     "customers", "ltv", "churn", "arpu", "total", "sum", "balance", "receivable",
     "payable", "inventory", "depreciation", "amortization", "interest", "tax"}

\* the number of consecutive lower-case letters, and of digits, from position i
RECURSIVE LowerRun(_, _)
LowerRun(t, i) ==
    IF i <= Len(t) /\ IsLowerChar(CharAt(t, i)) THEN 1 + LowerRun(t, i + 1) ELSE 0
RECURSIVE DigitRun(_, _)
DigitRun(t, i) ==
    IF i <= Len(t) /\ IsDigit(CharAt(t, i)) THEN 1 + DigitRun(t, i + 1) ELSE 0

SpaceAt(t, i) == i <= Len(t) /\ IsSpace(CharAt(t, i))

\* re.match of the bullet pattern (a bullet, "-" or "*", then white space); the
\* texts of the model are ASCII, so the bullet character itself never occurs
MatchBullet(text) ==
    LET t == LStrip(text)
    IN t # "" /\ Head(t) \in {"-", "*"} /\ SpaceAt(t, 2)

\* re.match(r'^\s*\d+\.\s+', text)
MatchNumbered(text) ==
    LET t == LStrip(text)
        n == DigitRun(t, 1)
    IN n >= 1 /\ n + 1 <= Len(t) /\ CharAt(t, n + 1) = "." /\ SpaceAt(t, n + 2)

\* re.match(r'^\s*[A-Z][a-z]+\s+', text)
MatchCapitalizedWord(text) ==
    LET t == LStrip(text)
        n == LowerRun(t, 2)
    IN t # "" /\ IsUpperChar(Head(t)) /\ n >= 1 /\ SpaceAt(t, n + 2)

\* re.match(r'^\s*[a-z]+\s+', text)
MatchLowercaseWord(text) ==
    LET t == LStrip(text)
        n == LowerRun(t, 1)
    IN n >= 1 /\ SpaceAt(t, n + 1)

IsFinancialMetricName(text) ==
    \/ ContainsAny(Lower(text), financial_keywords)
    \/ MatchBullet(text)
    \/ MatchNumbered(text)
    \/ MatchCapitalizedWord(text)
    \/ MatchLowercaseWord(text)

\* str(value).strip() of the cells of column c (1-based), top to bottom
ColumnTexts(df, c) == [i \in 1..Len(df.rows) |-> Strip(CellText(df.rows[i][c]))]

\* `value_str and value_str.lower() not in ['nan', 'none', '']`
IsMeaningfulText(value_str) == value_str # "" /\ Lower(value_str) \notin {"nan", "none", ""}

\* the share of metric names among the meaningful cells of column c is above
\* num / den
MetricShareAbove(df, c, num, den) ==
    LET texts == ColumnTexts(df, c)
        counted == {i \in 1..Len(texts) : IsMeaningfulText(texts[i])}
        metric == {i \in counted : IsFinancialMetricName(texts[i])}
    IN /\ Cardinality(metric) > 0
       /\ den * Cardinality(metric) > num * Max(Cardinality(counted), 1)

\* the test of the first column for section, subsection and metric names
IsHierarchicalText(value_str) ==
    \/ (IsUpper(value_str) /\ Len(value_str) > 2)
    \/ Contains(value_str, "&") \/ Contains(Lower(value_str), "and")
    \/ IsFinancialMetricName(value_str)

HierarchicalShareAbove(df, num, den) ==
    LET texts == ColumnTexts(df, 1)
        counted == {i \in 1..Len(texts) : IsMeaningfulText(texts[i])}
        hier == {i \in counted : IsHierarchicalText(texts[i])}
    IN /\ Cardinality(hier) > 0
       /\ den * Cardinality(hier) > num * Max(Cardinality(counted), 1)

\* _find_header_column; the result is the code's 0-based column index
FindHeaderColumn(df) ==
    IF Len(df.columns) > 1 /\ MetricShareAbove(df, 2, 3, 10) THEN 1
    ELSE IF HierarchicalShareAbove(df, 2, 10) THEN 0
    ELSE LET hits == {c \in 1..Len(df.columns) : MetricShareAbove(df, c, 3, 10)}
         IN IF hits # {} THEN Least(hits) - 1 ELSE 0

\* `text and text.lower() not in ['nan', 'none', '']`
IsNamed(text) == text # "" /\ Lower(text) \notin {"nan", "none", ""}

\* one row of the loop of _merge_indented_headers: the merged label and the
\* section and parent that the next row starts from.  header_col_idx is 0-based.
MergeRow(df, row, header_col_idx, st) ==
    LET main_header == Strip(CellText(df.rows[row][header_col_idx + 1]))
    IN IF header_col_idx = 1 /\ Len(df.columns) > 0
       THEN LET section_header == Strip(CellText(df.rows[row][1]))
            IN IF IsUpper(section_header) /\ Len(section_header) > 2
               THEN [label |-> section_header, section |-> section_header, parent |-> ""]
               ELSE IF section_header # "" /\ ~IsUpper(section_header)
                       /\ Len(section_header) > 3
               THEN [label |-> st.section \o " - " \o section_header,
                     section |-> st.section, parent |-> section_header]
               ELSE IF IsNamed(main_header)
               THEN [st EXCEPT !.label =
                        IF st.parent # ""
                        THEN st.section \o " - " \o st.parent \o " - " \o main_header
                        ELSE IF st.section # ""
                        THEN st.section \o " - " \o main_header
                        ELSE main_header]
               ELSE [st EXCEPT !.label = section_header]
       ELSE IF IsUpper(main_header) /\ Len(main_header) > 2
       THEN [label |-> main_header, section |-> main_header, parent |-> ""]
       ELSE IF main_header # "" /\ ~IsUpper(main_header) /\ Len(main_header) > 3
       THEN [label |-> st.section \o " - " \o main_header,
             section |-> st.section, parent |-> main_header]
       ELSE LET metric_name == IF Len(df.columns) > 1
                               THEN Strip(CellText(df.rows[row][2])) ELSE ""
                name == IF IsNamed(metric_name) THEN metric_name ELSE main_header
            IN [st EXCEPT !.label =
                   IF name = "" THEN ""
                   ELSE IF st.parent # ""
                   THEN st.section \o " - " \o st.parent \o " - " \o name
                   ELSE IF st.section # ""
                   THEN st.section \o " - " \o name
                   ELSE name]

\* the merged labels of the rows from `row` on
RECURSIVE MergedHeaders(_, _, _, _)
MergedHeaders(df, row, header_col_idx, st) ==
    IF row > Len(df.rows) THEN <<>>
    ELSE LET nxt == MergeRow(df, row, header_col_idx, st)
         IN <<nxt.label>> \o MergedHeaders(df, row + 1, header_col_idx, nxt)

\* a variant that writes the merged labels and removes no column
MergeIndentedHeadersKeepsColumns(df, header_col_idx) ==
    [df EXCEPT
       !.rows = [i \in 1..Len(df.rows) |->
                   [df.rows[i] EXCEPT ![1] =
                       Str(MergedHeaders(df, 1, header_col_idx,
                               [label |-> "", section |-> "", parent |-> ""])[i])]]]

\* _merge_indented_headers
MergeIndentedHeaders(df, header_col_idx) ==
    LET merged_headers ==
            MergedHeaders(df, 1, header_col_idx, [label |-> "", section |-> "", parent |-> ""])
        columns_to_keep == {1} \cup {c \in 1..Len(df.columns) : c > header_col_idx + 1}
    IN IF header_col_idx > 0
       THEN [df EXCEPT
               !.columns = SelectPositions(df.columns, columns_to_keep, 1),
               !.rows = [i \in 1..Len(df.rows) |->
                           <<Str(merged_headers[i])>>
                             \o SelectPositions(df.rows[i], columns_to_keep \ {1}, 1)]]
       ELSE [df EXCEPT
               !.rows = [i \in 1..Len(df.rows) |->
                           [df.rows[i] EXCEPT ![1] = Str(merged_headers[i])]]]

\* _fix_indented_row_headers
FixIndentedRowHeaders(df) ==
    IF IsEmptyDf(df) \/ Len(df.columns) < 2 THEN df
    ELSE LET header_col_idx == FindHeaderColumn(df)
         IN IF header_col_idx = 0
            THEN [df EXCEPT
                    !.rows = [i \in 1..Len(df.rows) |->
                                [df.rows[i] EXCEPT ![1] = Str(Strip(CellText(@)))]]]
            ELSE MergeIndentedHeaders(df, header_col_idx)

\* _clean_dataframe
CleanDataframe(df) ==
    ConvertNumericColumns(FixIndentedRowHeaders(StripColumns(DropNaColumns(DropNaRows(df)))))

\* extract_dataframe: info is the header_info argument; any exception gives
\* the empty DataFrame
ExtractDataframe(grid, info) ==
    IF grid = <<>> THEN EmptyDataFrame
    ELSE LET header_row_index == info.header_row_index
             given == info.header_row # <<>>
         IN IF ~given /\ header_row_index + 1 > Len(grid) THEN EmptyDataFrame
            ELSE LET header == IF given THEN info.header_row
                               ELSE grid[header_row_index + 1]
                     data_rows == SubSeq(grid, header_row_index + 2, Len(grid))
                     df == NewDataFrame(data_rows, header)
                 IN IF df = Raise THEN EmptyDataFrame ELSE CleanDataframe(df)

-----------------------------------------------------------------------------
(* Value Parser: the four copies of it in the code *)

\* the length of the match of \.\d+ at position p, 0 when there is none
FractionLen(t, p) ==
    IF p <= Len(t) /\ CharAt(t, p) = "." /\ DigitRun(t, p + 1) >= 1
    THEN 1 + DigitRun(t, p + 1) ELSE 0

\* the length of the match of \d*\.?\d+ at position j after a run of d1 digits,
\* and of [-+]?\d*\.?\d+ at position i; 0 when there is none
UnsignedMatchLen(t, j) == DigitRun(t, j) + FractionLen(t, j + DigitRun(t, j))

NumericMatchLen(t, i) ==
    IF i > Len(t) THEN 0
    ELSE IF CharAt(t, i) \in {"-", "+"} /\ UnsignedMatchLen(t, i + 1) > 0
    THEN 1 + UnsignedMatchLen(t, i + 1)
    ELSE UnsignedMatchLen(t, i)

NumericMatchStarts(t) == {i \in 1..Len(t) : NumericMatchLen(t, i) > 0}
NumericMatchAt(t, i) == Str(SubSeq(t, i, i + NumericMatchLen(t, i) - 1))

\* re.search(r'[-+]?\d*\.?\d+', t): the text of the leftmost match as a cell,
\* or Null
SearchNumeric(t) ==
    IF NumericMatchStarts(t) = {} THEN Null
    ELSE NumericMatchAt(t, Least(NumericMatchStarts(t)))

\* the text between the first and the last character: value_str[1:-1]
Inner(t) == IF Len(t) >= 2 THEN SubSeq(t, 2, Len(t) - 1) ELSE ""

Negate(c) == IF IsNum(c) THEN Num(0 - c.num) ELSE Null

\* float(value_str), and on ValueError the float of the first numeric match
FloatOrNumericMatch(cleaned) ==
    IF IsNum(ToFloat(cleaned)) THEN ToFloat(cleaned)
    ELSE IF IsStr(SearchNumeric(cleaned)) THEN ToFloat(SearchNumeric(cleaned).str)
    ELSE Null

\* a variant that leaves the thousands separators in the text
CleanFinancialTextKeepsCommas(value_str) ==
    IF StartsWith(value_str, "(") /\ EndsWith(value_str, ")")
    THEN Negate(ToFloat(RemoveChar(Inner(value_str), "$")))
    ELSE FloatOrNumericMatch(RemoveChar(RemoveChar(value_str, "$"), "%"))

\* clean_financial_value of identify_all_numeric_rows on the stripped text
CleanFinancialText(value_str) ==
    IF StartsWith(value_str, "(") /\ EndsWith(value_str, ")")
    THEN Negate(ToFloat(RemoveChar(RemoveChar(Inner(value_str), "$"), ",")))
    ELSE FloatOrNumericMatch(RemoveChar(RemoveChar(RemoveChar(value_str, "$"), ","), "%"))

\* clean_financial_value of identify_all_numeric_rows: a number cell, or Null
\* for None
clean_financial_value(value) ==
    IF IsNull(value) \/ value = Str("") THEN Null
    ELSE IF IsNum(value) THEN value
    ELSE CleanFinancialText(Strip(value.str))

\* parse_financial_value of _create_chart_for_row on the stripped text: the
\* same text as clean_financial_value
ChartFinancialText(value_str) ==
    IF StartsWith(value_str, "(") /\ EndsWith(value_str, ")")
    THEN Negate(ToFloat(RemoveChar(RemoveChar(Inner(value_str), "$"), ",")))
    ELSE FloatOrNumericMatch(RemoveChar(RemoveChar(RemoveChar(value_str, "$"), ","), "%"))

parse_financial_value_chart(value) ==
    IF IsNull(value) \/ value = Str("") THEN Null
    ELSE IF IsNum(value) THEN value
    ELSE ChartFinancialText(Strip(value.str))

\* parse_financial_value of the formula path of _find_component_rows
FormulaFinancialText(value_str) ==
    IF StartsWith(value_str, "(") /\ EndsWith(value_str, ")")
    THEN Negate(ToFloat(Inner(value_str)))
    ELSE ToFloat(value_str)

parse_financial_value_formula(value) ==
    IF IsNull(value) \/ value = Str("") THEN Null
    ELSE IF IsNum(value) THEN value
    ELSE FormulaFinancialText(Strip(value.str))

\* parse_financial_value of the heuristic path of _find_component_rows
HeuristicFinancialText(value_str) ==
    IF StartsWith(value_str, "(") /\ EndsWith(value_str, ")")
    THEN Negate(ToFloat(Inner(value_str)))
    ELSE ToFloat(value_str)

parse_financial_value_heuristic(value) ==
    IF IsNull(value) \/ value = Str("") THEN Null
    ELSE IF IsNum(value) THEN value
    ELSE HeuristicFinancialText(Strip(value.str))

\* the elements of a sequence of cells that are not Null: Series.dropna()
RECURSIVE DropNa(_)
DropNa(cells) ==
    IF cells = <<>> THEN <<>>
    ELSE IF IsNull(Head(cells)) THEN DropNa(Tail(cells))
    ELSE <<Head(cells)>> \o DropNa(Tail(cells))

Abs(n) == IF n < 0 THEN 0 - n ELSE n

\* Series.abs().sum() of number cells
RECURSIVE AbsSum(_)
AbsSum(cells) == IF cells = <<>> THEN 0 ELSE Abs(Head(cells).num) + AbsSum(Tail(cells))

\* the numbers of a sequence of number cells: Series.tolist()
ToList(cells) == [i \in 1..Len(cells) |-> cells[i].num]

-----------------------------------------------------------------------------
(* Row Classifier *)

summary_keywords == {"total", "sum", "net", "gross", "operating"}

\* is_summary of identify_all_numeric_rows and of _create_chart_for_row
IsSummaryName(row_name) == ContainsAny(Lower(row_name), summary_keywords)

\* _categorize_row on the lower-cased name
CategoryOf(name_lower) ==
    IF ContainsAny(name_lower, {"revenue", "sales", "income"}) THEN "revenue"
    ELSE IF ContainsAny(name_lower, {"cost", "expense", "cogs"}) THEN "expense"
    ELSE IF ContainsAny(name_lower, {"profit", "margin", "ebit"}) THEN "profit"
    ELSE IF ContainsAny(name_lower, {"asset", "liability", "equity"}) THEN "balance_sheet"
    ELSE "other"

\* _categorize_row
CategorizeRow(row_name) == CategoryOf(Lower(row_name))

-----------------------------------------------------------------------------
(* Component Resolver *)

\* the row numbers of the cell references that re.findall(r'[A-Z]+\d+', text)
\* extracts: every run of digits that directly follows an upper-case letter
ReferencedSheetRows(cell_str) ==
    {DigitsToInt(SubSeq(cell_str, j + 1, j + DigitRun(cell_str, j + 1))) :
        j \in {k \in 1..(Len(cell_str) - 1) :
                 IsUpperChar(CharAt(cell_str, k)) /\ IsDigit(CharAt(cell_str, k + 1))}}

\* the keywords by which _find_component_rows skips "another summary row"
component_skip_keywords == {"total", "sum", "net"}

SkippedAsSummary(component_name) ==
    ContainsAny(Lower(component_name), component_skip_keywords)

\* referenced_rows of the formula path: the DataFrame indices (0-based) that
\* the formulas read for the summary row refer to
ReferencedRows(df, formula_cells) ==
    {r - 2 : r \in UNION {IF StartsWith(formula_cells[k], "=")
                           THEN ReferencedSheetRows(formula_cells[k]) ELSE {}
                           : k \in 1..Len(formula_cells)}}
      \cap (0..(Len(df.rows) - 1))

\* the values of row i (0-based position) after its first column, parsed
FormulaValues(df, i) ==
    DropNa([c \in 1..(Len(df.columns) - 1) |->
               parse_financial_value_formula(df.rows[i + 1][c + 1])])
HeuristicValues(df, i) ==
    DropNa([c \in 1..(Len(df.columns) - 1) |->
               parse_financial_value_heuristic(df.rows[i + 1][c + 1])])

Component(df, i, values) ==
    [index |-> i, name |-> CellText(df.rows[i + 1][1]), values |-> ToList(values)]

\* the formula path appends a referenced row with these values
FormulaKeeps(component_name, component_values) ==
    /\ ~SkippedAsSummary(component_name)
    /\ Len(component_values) > 0 /\ AbsSum(component_values) > 0

\* the components that the formula path appends, for the referenced rows from
\* position i on, in ascending order (the iteration order of a set of small ints)
RECURSIVE FormulaComponents(_, _, _)
FormulaComponents(df, referenced_rows, i) ==
    IF i >= Len(df.rows) THEN <<>>
    ELSE IF i \in referenced_rows
            /\ FormulaKeeps(CellText(df.rows[i + 1][1]), FormulaValues(df, i))
    THEN <<Component(df, i, FormulaValues(df, i))>>
            \o FormulaComponents(df, referenced_rows, i + 1)
    ELSE FormulaComponents(df, referenced_rows, i + 1)

\* the length of the first word of a text that starts with one
FirstWordLen(u) ==
    IF \E i \in 1..Len(u) : IsSpace(CharAt(u, i))
    THEN Least({i \in 1..Len(u) : IsSpace(CharAt(u, i))}) - 1
    ELSE Len(u)

\* str.split(): the set of the words of the text
RECURSIVE Words(_)
RECURSIVE WordsOfStripped(_)
WordsOfStripped(u) ==
    IF u = "" THEN {}
    ELSE {SubSeq(u, 1, FirstWordLen(u))}
           \cup Words(SubSeq(u, FirstWordLen(u) + 1, Len(u)))
Words(t) == WordsOfStripped(LStrip(t))

key_terms == {"revenue", "sales", "expense", "cost", "income", "profit", "loss",
              "margin", "gross", "net", "operating"}
general_terms == {"total", "net", "gross", "operating", "overall"}
specific_terms == {"revenue", "sales", "expense", "cost", "returns", "refunds",
                   "discounts", "stream"}

\* the three tests of the heuristic path on the lower-cased names and their words
IsRelated(summary_lower, component_lower, summary_words, component_words) ==
    \/ (summary_words \cap component_words) \cap key_terms # {}
    \/ (summary_words \cap general_terms # {} /\ component_words \cap specific_terms # {})
    \/ (Contains(summary_lower, "revenue") /\ Contains(component_lower, "stream"))

\* is_component of the heuristic path
IsHeuristicComponent(summary_row_name, component_name) ==
    IsRelated(Lower(summary_row_name), Lower(component_name),
              Words(Lower(summary_row_name)), Words(Lower(component_name)))

\* the bounds of `range(summary_row_index - 1, max(0, summary_row_index - 10), -1)`:
\* the last index examined, the stop value being excluded
HeuristicWindowSize == 10
HeuristicLowest(summary_row_index) ==
    Max(0, summary_row_index - HeuristicWindowSize) + 1

\* the heuristic path appends a row with this name and these values
HeuristicKeeps(summary_row_name, component_name, component_values) ==
    /\ Len(component_values) > 0 /\ AbsSum(component_values) > 0
    /\ ~SkippedAsSummary(component_name)
    /\ IsHeuristicComponent(summary_row_name, component_name)

\* the components that the heuristic path appends, from index i downwards
RECURSIVE HeuristicComponents(_, _, _, _)
HeuristicComponents(df, summary_row_index, summary_row_name, i) ==
    IF i < HeuristicLowest(summary_row_index) THEN <<>>
    ELSE IF i >= Len(df.rows)
    THEN HeuristicComponents(df, summary_row_index, summary_row_name, i - 1)
    ELSE IF HeuristicKeeps(summary_row_name, CellText(df.rows[i + 1][1]),
                           HeuristicValues(df, i))
    THEN <<Component(df, i, HeuristicValues(df, i))>>
           \o HeuristicComponents(df, summary_row_index, summary_row_name, i - 1)
    ELSE HeuristicComponents(df, summary_row_index, summary_row_name, i - 1)

\* what the sheet holds for the range B{r}:Z{r} with value_render_option=FORMULA
FormulaCellsOf(sheet, sheet_row_number) ==
    IF sheet_row_number \in DOMAIN sheet.formulas
    THEN sheet.formulas[sheet_row_number] ELSE <<>>

\* the sheet row whose formulas the formula path reads for a summary row
FormulaSheetRow(summary_row_index) == summary_row_index + 2

\* the formula path: empty when the names of the sheet are not given (sheet is
\* Null), when the lookup raises, and when no referenced row is kept
TracedComponents(df, summary_row_index, sheet) ==
    IF IsNull(sheet) THEN <<>>
    ELSE IF sheet.lookup = "raise" THEN <<>>
    ELSE FormulaComponents(df,
             ReferencedRows(df, FormulaCellsOf(sheet, FormulaSheetRow(summary_row_index))),
             0)

\* the formula lookups that one call of _find_component_rows issues: the sheet
\* rows whose formulas it asks for; none when the names of the sheet are not
\* given, else one, whether the lookup succeeds or raises
FormulaLookups(sheet, summary_row_index) ==
    IF IsNull(sheet) THEN <<>> ELSE <<FormulaSheetRow(summary_row_index)>>

\* a variant without the heuristic path
TracedOnly(traced, df, summary_row_index, summary_row_name) == traced

\* `if components: return components`, else the heuristic path
TracedOrHeuristic(traced, df, summary_row_index, summary_row_name) ==
    IF traced # <<>> THEN traced
    ELSE HeuristicComponents(df, summary_row_index, summary_row_name,
                             summary_row_index - 1)

\* _find_component_rows
FindComponentRows(df, summary_row_index, summary_row_name, sheet) ==
    TracedOrHeuristic(TracedComponents(df, summary_row_index, sheet),
                      df, summary_row_index, summary_row_name)

-----------------------------------------------------------------------------
(* Trend Analyzer *)

\* the movements dict as created at the top of _calculate_movements
EmptyMovements ==
    [absolute_changes |-> <<>>, percentage_changes |-> <<>>,
     total_change |-> 0, avg_change |-> Rat(0, 1), trend |-> "stable"]

\* the guard without its test for a zero previous value
PairRecordedNoZeroGuard(current, previous) == IsNum(current) /\ IsNum(previous)

\* the guard of the loop body: pd.notna(current) and pd.notna(previous) and previous != 0
PairRecorded(current, previous) ==
    IsNum(current) /\ IsNum(previous) /\ previous.num # 0

\* the loop `for i in range(1, len(data))`, from position i (1-based: i+1) on
RECURSIVE MovementLoop(_, _, _)
MovementLoop(d, i, m) ==
    IF i > Len(d) THEN m
    ELSE LET current == d[i]
             previous == d[i - 1]
         IN IF PairRecorded(current, previous)
            THEN LET abs_change == current.num - previous.num
                     pct_change == Rat(abs_change * 100, previous.num)
                 IN MovementLoop(d, i + 1,
                        [m EXCEPT !.absolute_changes = Append(@, abs_change),
                                  !.percentage_changes = Append(@, pct_change)])
            ELSE MovementLoop(d, i + 1, m)

\* a trend test that takes no change at all for growth
TrendOfNonStrict(avg_change) ==
    IF RatSign(avg_change) >= 0 THEN "increasing" ELSE "decreasing"

TrendOf(avg_change) ==
    IF RatSign(avg_change) > 0 THEN "increasing"
    ELSE IF RatSign(avg_change) < 0 THEN "decreasing"
    ELSE "stable"

CalculateMovements(d) ==
    LET m == MovementLoop(d, 2, EmptyMovements)
    IN IF m.absolute_changes # <<>>
       THEN LET total == SumSeq(m.absolute_changes)
                avg == Rat(total, Len(m.absolute_changes))
            IN [m EXCEPT !.total_change = total,
                         !.avg_change = avg,
                         !.trend = TrendOf(avg)]
       ELSE m

-----------------------------------------------------------------------------
(* Row Classifier: identify_all_numeric_rows *)

\* the values of the row at position pos (1-based) from column `from` on
\* (0-based, row.iloc[from:]), cleaned, None dropped
CleanValuesFrom(df, pos, from) ==
    DropNa([c \in 1..(Len(df.columns) - from) |->
               clean_financial_value(df.rows[pos][c + from])])

\* a variant that always takes the alignment starting at column 2
NumericValuesFromColumn2(df, pos) == CleanValuesFrom(df, pos, 2)

\* numeric_values: the alignment starting at column 2 when it holds more
\* numbers, else the alignment starting at column 1
NumericValues(df, pos) ==
    IF Len(CleanValuesFrom(df, pos, 2)) > Len(CleanValuesFrom(df, pos, 1))
    THEN CleanValuesFrom(df, pos, 2) ELSE CleanValuesFrom(df, pos, 1)

\* the dict that identify_all_numeric_rows appends for a row
NumericRowOf(df, index, row_name, numeric_values, sheet) ==
    [index |-> index,
     name |-> row_name,
     type |-> CategorizeRow(row_name),
     total |-> AbsSum(numeric_values),
     avg |-> Rat(SumSeq(ToList(numeric_values)), Len(numeric_values)),
     values |-> ToList(numeric_values),
     is_summary |-> IsSummaryName(row_name),
     component_rows |-> IF IsSummaryName(row_name)
                        THEN FindComponentRows(df, index, row_name, sheet)
                        ELSE <<>>]

\* the same for the row at position pos (1-based)
NumericRow(df, pos, sheet) ==
    NumericRowOf(df, df.index[pos], CellText(df.rows[pos][1]), NumericValues(df, pos),
                 sheet)

RECURSIVE NumericRowsFrom(_, _, _)
NumericRowsFrom(df, pos, sheet) ==
    IF pos > Len(df.rows) THEN <<>>
    ELSE IF Len(df.columns) >= 1 /\ Len(NumericValues(df, pos)) > 0
    THEN <<NumericRow(df, pos, sheet)>> \o NumericRowsFrom(df, pos + 1, sheet)
    ELSE NumericRowsFrom(df, pos + 1, sheet)

IdentifyAllNumericRows(df, sheet) == NumericRowsFrom(df, 1, sheet)

\* the formula lookups issued by identify_all_numeric_rows: those of its calls
\* of _find_component_rows, one call per summary row, from the k-th numeric row
RECURSIVE ClassifierLookups(_, _, _)
ClassifierLookups(numeric_rows, sheet, k) ==
    IF k > Len(numeric_rows) THEN <<>>
    ELSE IF numeric_rows[k].is_summary
    THEN FormulaLookups(sheet, numeric_rows[k].index)
           \o ClassifierLookups(numeric_rows, sheet, k + 1)
    ELSE ClassifierLookups(numeric_rows, sheet, k + 1)

-----------------------------------------------------------------------------
(* Chart Planner: _create_chart_for_row *)

month_names == {"jan", "feb", "mar", "apr", "may", "jun",
                "jul", "aug", "sep", "oct", "nov", "dec"}

\* the group that the loop over the periods puts a period into
PeriodGroupOf(period) ==
    LET period_lower == Lower(period)
    IN IF ContainsAny(period_lower, month_names) THEN "monthly"
       ELSE IF ContainsAny(period_lower, {"q1", "q2", "q3", "q4", "quarter"}) THEN "quarterly"
       ELSE IF ContainsAny(period_lower, {"full year", "annual", "year"}) THEN "annual"
       ELSE "other"

\* chart_types, in the order the code lists them
chart_types_swapped == <<"quarterly", "monthly", "annual", "other">>
chart_types == <<"monthly", "quarterly", "annual", "other">>

MinGroupSize == 2

\* the positions (1-based, among the columns after the first) of the periods
\* of a group: those of its kind where the row has a value
RECURSIVE GroupPositions(_, _, _, _)
GroupPositions(periods, numeric_data, kind, i) ==
    IF i > Len(periods) THEN <<>>
    ELSE IF ~IsNull(numeric_data[i]) /\ PeriodGroupOf(periods[i]) = kind
    THEN <<i>> \o GroupPositions(periods, numeric_data, kind, i + 1)
    ELSE GroupPositions(periods, numeric_data, kind, i + 1)

\* the first of chart_types from position k on whose group holds enough periods,
\* 0 when there is none
RECURSIVE FirstChartType(_, _, _)
FirstChartType(periods, numeric_data, k) ==
    IF k > Len(chart_types) THEN 0
    ELSE IF Len(GroupPositions(periods, numeric_data, chart_types[k], 1)) >= MinGroupSize
    THEN k
    ELSE FirstChartType(periods, numeric_data, k + 1)

\* df.columns.get_loc(period) is a position only when the name occurs once
OccursOnce(columns, period) ==
    Cardinality({j \in 1..Len(columns) : columns[j] = period}) = 1

\* aligned_data of one component for the periods at the positions given:
\* comp_values is the component's row with the nulls dropped, and it is read
\* at the position of the period among the columns
AlignedData(comp_values, positions) ==
    [k \in 1..Len(positions) |->
        IF positions[k] <= Len(comp_values) THEN comp_values[positions[k]].num ELSE 0]

ChartValues(df, i) ==
    [c \in 1..(Len(df.columns) - 1) |-> parse_financial_value_chart(df.rows[i + 1][c + 1])]

\* one of component_names and component_data, with the index of the component
\* it was built from
SeriesOf(component, comp_values, positions) ==
    [index |-> component.index,
     name |-> component.name,
     data |-> AlignedData(comp_values, positions)]

\* component_names and component_data, zipped
RECURSIVE ComponentSeries(_, _, _, _)
ComponentSeries(df, component_rows, positions, k) ==
    IF k > Len(component_rows) THEN <<>>
    ELSE IF Len(DropNa(ChartValues(df, component_rows[k].index))) > 0
    THEN <<SeriesOf(component_rows[k],
                    DropNa(ChartValues(df, component_rows[k].index)), positions)>>
           \o ComponentSeries(df, component_rows, positions, k + 1)
    ELSE ComponentSeries(df, component_rows, positions, k + 1)

NoChart(outcome) ==
    [outcome |-> outcome, chart_type |-> "", periods |-> <<>>, data |-> <<>>,
     series |-> <<>>, total_charts |-> 0]

\* periods = df.columns[1:]
ChartPeriods(df) == SubSeq(df.columns, 2, Len(df.columns))

NamesAt(periods, positions) == [k \in 1..Len(positions) |-> periods[positions[k]]]
ValuesAt(numeric_data, positions) ==
    [k \in 1..Len(positions) |-> numeric_data[positions[k]].num]

\* the chart drawn from one group: stacked when there is a series to stack,
\* else the bar chart of the row's own values; an exception ends in the error
\* return and no chart
ChartOfGroup(df, row_idx, chart_type, positions, series) ==
    IF series # <<>>
    THEN IF \E k \in 1..Len(positions) :
               ~OccursOnce(df.columns, ChartPeriods(df)[positions[k]])
         THEN NoChart("error")
         ELSE [outcome |-> "stacked", chart_type |-> chart_type,
               periods |-> NamesAt(ChartPeriods(df), positions),
               data |-> <<>>, series |-> series, total_charts |-> 1]
    ELSE IF ~IsStr(df.rows[row_idx + 1][1]) THEN NoChart("error")
    ELSE [outcome |-> "simple", chart_type |-> chart_type,
          periods |-> NamesAt(ChartPeriods(df), positions),
          data |-> ValuesAt(ChartValues(df, row_idx), positions),
          series |-> <<>>, total_charts |-> 1]

ChartOfPositions(df, row_idx, chart_type, positions, component_rows) ==
    ChartOfGroup(df, row_idx, chart_type, positions,
                 ComponentSeries(df, component_rows, positions, 1))

\* the two loops over chart_types: `first` is the place of the first group that
\* holds enough periods (0 for none), and total_charts is 0 when it is reached
ChartOfFirstGroup(df, row_idx, first, component_rows, max_charts_per_metric) ==
    IF first = 0 \/ 0 >= max_charts_per_metric THEN NoChart("no_groups")
    ELSE ChartOfPositions(df, row_idx, chart_types[first],
             GroupPositions(ChartPeriods(df), ChartValues(df, row_idx),
                            chart_types[first], 1),
             component_rows)

\* a variant that hands the sheet of the run to the resolver
ChartSheetOfRun == args.sheet

\* the names of the sheet that _create_chart_for_row hands to the resolver: none
ChartSheet == Null

\* component_rows of the chart: the resolver is called without the names of
\* the sheet, and only for a summary row when stacked charts are asked for
ChartComponents(df, row_idx, row_name, use_stacked_for_summary) ==
    IF use_stacked_for_summary /\ IsStr(row_name) /\ IsSummaryName(CellText(row_name))
    THEN FindComponentRows(df, row_idx, CellText(row_name), ChartSheet)
    ELSE <<>>

\* the formula lookups issued by one call of _create_chart_for_row: those of
\* its call of the resolver, which it makes before it looks at the groups
ChartLookups(df, row_idx, use_stacked_for_summary) ==
    IF /\ row_idx < Len(df.rows)
       /\ DropNa(ChartValues(df, row_idx)) # <<>>
       /\ use_stacked_for_summary
       /\ IsStr(df.rows[row_idx + 1][1])
       /\ IsSummaryName(CellText(df.rows[row_idx + 1][1]))
    THEN FormulaLookups(ChartSheet, row_idx)
    ELSE <<>>

\* the same for the numeric rows from the k-th on
RECURSIVE ChartLookupsFrom(_, _, _, _)
ChartLookupsFrom(df, numeric_rows, use_stacked_for_summary, k) ==
    IF k > Len(numeric_rows) THEN <<>>
    ELSE ChartLookups(df, numeric_rows[k].index, use_stacked_for_summary)
           \o ChartLookupsFrom(df, numeric_rows, use_stacked_for_summary, k + 1)

\* _create_chart_for_row: what it draws and saves
CreateChartForRow(df, row_idx, max_charts_per_metric, use_stacked_for_summary) ==
    IF row_idx >= Len(df.rows) THEN NoChart("out_of_bounds")
    ELSE IF DropNa(ChartValues(df, row_idx)) = <<>> THEN NoChart("no_data")
    ELSE IF use_stacked_for_summary /\ ~IsStr(df.rows[row_idx + 1][1])
    THEN NoChart("error")
    ELSE ChartOfFirstGroup(df, row_idx,
             FirstChartType(ChartPeriods(df), ChartValues(df, row_idx), 1),
             ChartComponents(df, row_idx, df.rows[row_idx + 1][1],
                             use_stacked_for_summary),
             max_charts_per_metric)

\* pd.to_numeric(row_data, errors='coerce') of _generate_commentary_for_row
CoerceNumeric(cell) ==
    IF IsStr(cell) THEN ToFloat(Strip(cell.str)) ELSE cell

\* numeric_data of _generate_commentary_for_row
CommentaryValues(df, row_idx) ==
    [c \in 1..(Len(df.columns) - 1) |-> CoerceNumeric(df.rows[row_idx + 1][c + 1])]

\* _generate_commentary_for_row: the movements the commentary is written from
GenerateCommentaryForRow(df, row_idx) ==
    IF row_idx >= Len(df.rows) THEN [outcome |-> "out_of_bounds"]
    ELSE IF DropNa(CommentaryValues(df, row_idx)) = <<>> THEN [outcome |-> "no_data"]
    ELSE [outcome |-> "commentary",
          type |-> CategorizeRow(CellText(df.rows[row_idx + 1][1])),
          movements |-> CalculateMovements(CommentaryValues(df, row_idx))]

-----------------------------------------------------------------------------
(* Trend Analyzer run: one call of _calculate_movements on a drawn series *)

MaxPeriods == 3

TrendValues == {Null, Num(0), Num(100), Num(110), Num(121), Num(-50)}

SeqsUpTo(S, n) == UNION {[1..k -> S] : k \in 0..n}

NoMovements == [absolute_changes |-> <<>>]

TrendUnused == data = Unused /\ movements = Unused
HeaderUnused == all_values = Unused /\ header_info = Unused
AnalysisUnused ==
    args = Unused /\ all_numeric_rows = Unused /\ charts = Unused /\ lookups = Unused
ParserUnused == raw_value = Unused /\ parsed = Unused

InitTrend ==
    /\ pc = "trend_input"
    /\ data \in SeqsUpTo(TrendValues, MaxPeriods)
    /\ movements = NoMovements
    /\ HeaderUnused /\ dataframe = Unused /\ AnalysisUnused /\ ParserUnused

CalculateMovementsStep ==
    /\ pc = "trend_input"
    /\ movements' = CalculateMovements(data)
    /\ pc' = "trend_done"
    /\ UNCHANGED <<data, headerVars, dataframe, analysisVars, parserVars>>

NextTrend == CalculateMovementsStep

SpecTrend == InitTrend /\ [][NextTrend]_vars

-----------------------------------------------------------------------------
(* Trend Analyzer: properties *)

\* the positions i (1-based) of the series whose pair (data[i-1], data[i]) has
\* both values present and a previous value other than zero
RecordedPositions(d) ==
    {i \in 2..Len(d) : IsNum(d[i]) /\ IsNum(d[i - 1]) /\ d[i - 1].num # 0}

\* the k-th smallest element of a finite set of integers
NthOf(S, k) == CHOOSE i \in S : Cardinality({j \in S : j < i}) = k - 1

\* C9 as stated: a series of n >= 1 periods yields absolute_changes and
\* percentage_changes of length n - 1.
C9_LengthIsPeriodsMinusOne ==
    (pc = "trend_done" /\ Len(data) >= 1) =>
        /\ Len(movements.absolute_changes) = Len(data) - 1
        /\ Len(movements.percentage_changes) = Len(data) - 1

\* C9 amended: both sequences have one entry per adjacent pair whose two values
\* are present and whose previous value is not zero, so their common length is
\* at most n - 1, and it is n - 1 when no value is missing and no value but the
\* last is zero.
C9_LengthIsRecordedPairs ==
    pc = "trend_done" =>
        /\ Len(movements.absolute_changes) = Cardinality(RecordedPositions(data))
        /\ Len(movements.percentage_changes) = Len(movements.absolute_changes)
        /\ Len(data) >= 1 => Len(movements.absolute_changes) <= Len(data) - 1
        /\ (/\ Len(data) >= 1
            /\ \A i \in 1..Len(data) : IsNum(data[i])
            /\ \A i \in 1..(Len(data) - 1) : data[i].num # 0)
           => Len(movements.absolute_changes) = Len(data) - 1

\* a series of three periods of which one pair was skipped
C9_Witness ==
    /\ pc = "trend_done"
    /\ Len(data) = 3
    /\ Len(movements.absolute_changes) = 1

\* C10: every recorded pair contributes curr - prev and (curr - prev) / prev * 100,
\* in order; total_change is the sum and avg_change the mean of the absolute
\* changes; the trend is the sign of avg_change, stable when nothing was
\* recorded; [100, 110, 121] gives [10, 10] and increasing.
C10_MovementsAsSpecified ==
    pc = "trend_done" =>
        LET R == RecordedPositions(data)
            m == movements
            n == Len(m.absolute_changes)
        IN /\ n = Cardinality(R)
           /\ Len(m.percentage_changes) = n
           /\ \A k \in 1..n :
                LET i == NthOf(R, k)
                    chg == data[i].num - data[i - 1].num
                IN /\ m.absolute_changes[k] = chg
                   /\ m.percentage_changes[k].d # 0
                   /\ m.percentage_changes[k].n * data[i - 1].num
                        = chg * 100 * m.percentage_changes[k].d
           /\ m.total_change = SumSeq(m.absolute_changes)
           /\ n > 0 => m.avg_change.n * n = m.total_change * m.avg_change.d
           /\ n = 0 => m.avg_change.n = 0
           /\ m.avg_change.d # 0
           /\ m.trend = "increasing" <=> m.avg_change.n * m.avg_change.d > 0
           /\ m.trend = "decreasing" <=> m.avg_change.n * m.avg_change.d < 0
           /\ m.trend = "stable" <=> m.avg_change.n = 0
           /\ n = 0 => m.trend = "stable"
           /\ data = <<Num(100), Num(110), Num(121)>> =>
                /\ n = 2
                /\ \A k \in 1..2 : RatEq(m.percentage_changes[k], Rat(10, 1))
                /\ m.trend = "increasing"

\* the example series, analysed
C10_Witness ==
    /\ pc = "trend_done"
    /\ data = <<Num(100), Num(110), Num(121)>>
    /\ movements.trend = "increasing"
    /\ movements.total_change = 21

-----------------------------------------------------------------------------
(* Header Locator run: identify_header_row on a drawn grid *)

MaxGridRows == 3

\* the rows that the drawn grids are made of
HeaderGridRows ==
    {<<"", "2023", "2023", "">>,
     <<"Metric", "Q1", "Q2", "Full Year">>,
     <<"", "2023", "2023", "2023", "">>,
     <<"Metric", "Q1", "Q2", "Q3", "Full Year">>,
     <<"Metric", "Jan", "Feb", "Mar", "Full Year">>,
     <<"", "JAN", "FEB", "MAR", "2024">>,
     <<"Line Item", "JAN 2024", "FEB 2024">>,
     <<"Revenue", "100", "110", "120", "330">>,
     <<"", "", "", "", "">>,
     <<>>}

InitHeader ==
    /\ pc = "header_input"
    /\ all_values \in SeqsUpTo(HeaderGridRows, MaxGridRows)
    /\ header_info = Unused
    /\ TrendUnused /\ dataframe = Unused /\ AnalysisUnused /\ ParserUnused

IdentifyHeaderRow ==
    /\ pc = "header_input"
    /\ LET info == AnalyzeHeaderCandidates(all_values)
       IN header_info' =
            [header_row_index |-> info.row_index,
             header_row |-> info.header_row,
             periods |-> info.periods,
             period_type |-> info.period_type,
             year |-> info.year,
             total_rows |-> Len(all_values),
             total_columns |-> IF all_values # <<>> THEN Len(all_values[1]) ELSE 0]
    /\ pc' = "header_done"
    /\ UNCHANGED <<all_values, trendVars, dataframe, analysisVars, parserVars>>

NextHeader == IdentifyHeaderRow

SpecHeader == InitHeader /\ [][NextHeader]_vars

-----------------------------------------------------------------------------
(* Header Locator: properties *)

\* the cell is a period token: a month or quarter token, or a full-year total
IsPeriodToken(cell) ==
    \/ SearchMonth(Lower(Strip(cell)))
    \/ SearchQuarter(Lower(Strip(cell)))
    \/ Lower(Strip(cell)) = "full year"

\* "{PERIOD} {YEAR}", and "Full Year {YEAR}" for a full-year token
PeriodOfYear(cell, year) ==
    IF Lower(Strip(cell)) = "full year" THEN "Full Year " \o year
    ELSE Upper(Strip(cell)) \o " " \o year

\* the header that the claim expects of a year row and a period row
IsCombinationOf(header, year_row, period_row, year) ==
    /\ Len(header) = Max(Len(year_row), Len(period_row))
    /\ header[1] \in {Strip(PadRow(year_row, 1)[1]), Strip(PadRow(period_row, 1)[1])}
    /\ header[1] # ""
         \/ (Strip(PadRow(year_row, 1)[1]) = "" /\ Strip(PadRow(period_row, 1)[1]) = "")
    /\ \A c \in 2..Len(period_row) :
          IsPeriodToken(period_row[c]) => header[c] = PeriodOfYear(period_row[c], year)

\* the grid has no single-row header and its first adjacent (year row, period
\* row) pair, in either order, is at the 1-based positions i, i + 1
FirstMultiRowPair(grid, i) ==
    /\ \A k \in 1..Len(grid) : ~IsSingleRowHeader(grid[k])
    /\ i \in 1..(Len(grid) - 1)
    /\ YearsThenPeriods(grid, i) \/ PeriodsThenYears(grid, i)
    /\ \A k \in 1..(i - 1) : ~(YearsThenPeriods(grid, k) \/ PeriodsThenYears(grid, k))

\* C3: the multi-row fallback keeps the label-column title in column 0 and turns
\* every other period column into "{PERIOD} {YEAR}" ("Full Year {YEAR}" for a
\* full-year token), for quarter tokens as for month tokens; the rows
\* ["", "2023", "2023", ""] over ["Metric", "Q1", "Q2", "Full Year"] give
\* ["Metric", "Q1 2023", "Q2 2023", "Full Year 2023"].
C3_MultiRowHeaderCombined ==
    pc = "header_done" =>
        /\ \A i \in 1..(Len(all_values) - 1) :
              FirstMultiRowPair(all_values, i) =>
                 IF YearsThenPeriods(all_values, i)
                 THEN IsCombinationOf(header_info.header_row, all_values[i],
                          all_values[i + 1], header_info.year.str)
                 ELSE IsCombinationOf(header_info.header_row, all_values[i + 1],
                          all_values[i], header_info.year.str)
        /\ all_values = << <<"", "2023", "2023", "">>,
                           <<"Metric", "Q1", "Q2", "Full Year">> >>
              => header_info.header_row =
                    <<"Metric", "Q1 2023", "Q2 2023", "Full Year 2023">>

\* rows of month tokens alone, which the code does combine with the year
C3_MonthRowsCombined ==
    pc = "header_done" =>
        \A i \in 1..(Len(all_values) - 1) :
            (/\ FirstMultiRowPair(all_values, i)
             /\ YearsThenPeriods(all_values, i)
             /\ \A c \in 2..Len(all_values[i + 1]) :
                   ~SearchQuarter(Lower(all_values[i + 1][c])))
            => IsCombinationOf(header_info.header_row, all_values[i],
                   all_values[i + 1], header_info.year.str)

-----------------------------------------------------------------------------
(* Table Builder run: read_worksheet, which locates the header and then      *)
(* extracts the DataFrame from the located header row index                  *)

\* the rows that the drawn grids are made of
TableGridRows ==
    {<<"Line Item", "JAN 2024", "", "FEB 2024">>,
     <<"Revenue", "1000", "", "1100">>,
     <<"Cost", "600", "", "(660)">>,
     <<"Fees", "$2,373", "", "n/a">>,
     <<"", "", "", "">>,
     <<"Cost", "600">>,
     <<>>}

\* the header_info that every entry point builds from a header row index
HeaderInfoOfIndex(header_row_index) ==
    [header_row_index |-> header_row_index, header_row |-> <<>>, periods |-> <<>>,
     period_type |-> "unknown", year |-> Null]

InitTable ==
    /\ pc = "header_input"
    /\ all_values \in SeqsUpTo(TableGridRows, MaxGridRows)
    /\ header_info = Unused
    /\ dataframe = Unused
    /\ TrendUnused /\ AnalysisUnused /\ ParserUnused

ExtractStructuredData ==
    /\ pc = "header_done"
    /\ dataframe' = ExtractDataframe(all_values, HeaderInfoOfIndex(header_info.header_row_index))
    /\ pc' = "table_done"
    /\ UNCHANGED <<headerVars, trendVars, analysisVars, parserVars>>

NextTable == IdentifyHeaderRow \/ ExtractStructuredData

SpecTable == InitTable /\ [][NextTable]_vars

-----------------------------------------------------------------------------
(* Table Builder: properties *)

\* a cell that holds nothing: None / NaN or blank text
IsEmptyCell(c) == IsNull(c) \/ (IsStr(c) /\ Strip(c.str) = "")

\* C4: the Dataset has no row whose cells are all empty, no column whose cells
\* are all empty, and as many values in every row as there are periods (the
\* columns after the label column).
C4_NoEmptyRowOrColumn ==
    pc = "table_done" =>
        /\ \A i \in 1..Len(dataframe.rows) :
              \E c \in 1..Len(dataframe.columns) : ~IsEmptyCell(dataframe.rows[i][c])
        /\ \A c \in 1..Len(dataframe.columns) :
              \E i \in 1..Len(dataframe.rows) : ~IsEmptyCell(dataframe.rows[i][c])
        /\ \A i \in 1..Len(dataframe.rows) : Len(dataframe.rows[i]) - 1 = Len(dataframe.columns) - 1

\* the text of the sheet that the Dataset cell at row position i, column c was
\* built from, for a Dataset that kept every column of the sheet
RawCellOf(i, c) ==
    PadRow(all_values[header_info.header_row_index + 2 + dataframe.index[i]],
           Len(dataframe.columns))[c]

\* what the claim stores for a raw text: the number the Value Parser returns
\* for it, and the text itself when the parser returns none
StoredFor(text) ==
    IF IsNum(clean_financial_value(Str(text))) THEN clean_financial_value(Str(text))
    ELSE Str(text)

\* C16: every non-label cell of a data row holds the number that the Value
\* Parser returns for its text whenever it returns one ("$2,373" is stored as
\* 2373, "(660)" as -660), whatever the other cells of its column hold, and the
\* raw text otherwise (an empty cell may be stored as missing).
C16_ParsedCellsAreNumbers ==
    pc = "table_done" =>
        \A i \in 1..Len(dataframe.rows) : \A c \in 2..Len(dataframe.columns) :
            /\ IsStr(dataframe.rows[i][c])
                  => IsNull(clean_financial_value(dataframe.rows[i][c]))
            /\ Len(dataframe.columns) = Len(all_values[header_info.header_row_index + 1])
                  => \/ dataframe.rows[i][c] = StoredFor(RawCellOf(i, c))
                     \/ IsNull(dataframe.rows[i][c]) /\ Strip(RawCellOf(i, c)) = ""

\* the place of the located header row in the grid (1-based), the data rows
\* below it that have at least one cell and fewer cells than the header, and
\* whether no data row has more cells than the header
TableHeaderPos == header_info.header_row_index + 1
ShortDataRows ==
    {d \in (TableHeaderPos + 1)..Len(all_values) :
        Len(all_values[d]) \in 1..(Len(all_values[TableHeaderPos]) - 1)}
NoLongDataRow ==
    \A d \in (TableHeaderPos + 1)..Len(all_values) :
       Len(all_values[d]) <= Len(all_values[TableHeaderPos])

\* the Dataset row built from the grid row d is kept, with as many cells as
\* the Dataset has columns and its missing cells null
KeptNullPadded(d) ==
    \E i \in 1..Len(dataframe.rows) :
       /\ dataframe.index[i] = d - TableHeaderPos - 1
       /\ Len(dataframe.rows[i]) = Len(dataframe.columns)
       /\ Len(dataframe.columns) = Len(all_values[TableHeaderPos])
             => \A c \in (Len(all_values[d]) + 1)..Len(dataframe.columns) :
                   IsNull(dataframe.rows[i][c])

\* C25: a data row with fewer cells than the header is kept with its missing
\* cells null and has as many values as there are periods; short rows, also
\* when every data row is shorter than the header, never make the build fail
\* or return an empty Dataset.
C25_ShortRowsKeptNullPadded ==
    (pc = "table_done" /\ TableHeaderPos \in 1..Len(all_values) /\ NoLongDataRow)
    => \A d \in ShortDataRows : ~IsEmptyDf(dataframe) /\ KeptNullPadded(d)

-----------------------------------------------------------------------------
(* Analysis run: identify_header_row, then analyze_dataframe or
   analyze_all_rows on the same sheet, stage by stage *)

MaxHeaderRowIndex == 1
MaxCharts == 2

\* the data rows of the sheets of the run, by their place in the sheet
FirstRows ==
    {<<"Revenue", "1000", "1100">>, <<"Revenue", "$1,000", "$1,100">>,
     <<"Misc", "5", "6">>, <<"Gross Profit", "400", "440">>}
SecondRows ==
    {<<"Cost", "600", "660">>, <<"Cost", "", "660">>,
     <<"Gross Profit", "400", "440">>, <<"Fees", "0", "0">>}
LastRows ==
    {<<"Total Profit", "400", "440">>, <<"Total Profit", "", "">>,
     <<"Margin", "40", "40">>}
TitleRow == <<"Acme Corp", "", "">>
AnalysisHeader == <<"Line Item", "JAN 2024", "FEB 2024">>

\* the data rows (by their place among the data rows) that the formulas of the
\* last data row refer to
FormulaChoices == {<<>>, <<1, 2>>, <<1>>}

ColumnLetters == <<"A", "B", "C", "D", "E", "F">>

\* "=B2+B3": the sum of the cells of a column in the sheet rows given
RECURSIVE FormulaTerms(_, _)
FormulaTerms(letter, sheet_rows) ==
    IF sheet_rows = <<>> THEN ""
    ELSE letter \o ToString(Head(sheet_rows))
           \o (IF Len(sheet_rows) > 1 THEN "+" ELSE "")
           \o FormulaTerms(letter, Tail(sheet_rows))

\* what the sheet returns with value_render_option=FORMULA for the columns
\* from B on: the formulas of the last row, the values of the other rows
SheetFormulas(grid, header_row_index, refs) ==
    [r \in 1..Len(grid) |->
        IF r = Len(grid) /\ refs # <<>>
        THEN [c \in 1..(Len(grid[r]) - 1) |->
                 "=" \o FormulaTerms(ColumnLetters[c + 1],
                            [k \in 1..Len(refs) |-> refs[k] + header_row_index + 1])]
        ELSE Tail(grid[r])]

TitleRows(n) == [k \in 1..n |-> TitleRow]

\* the entry points and their create_local_report: analyze_all_rows has no
\* such argument and always asks for stacked charts
EntryArguments ==
    {[entry |-> "analyze_all_rows", create_local_report |-> TRUE]}
      \cup [entry : {"analyze_dataframe"}, create_local_report : BOOLEAN]

UseStackedForSummary(a) ==
    IF a.entry = "analyze_all_rows" THEN TRUE ELSE a.create_local_report

InitAnalysis ==
    /\ pc = "header_input"
    /\ \E h \in 0..MaxHeaderRowIndex, first \in FirstRows, second \in SecondRows,
          last \in LastRows, refs \in FormulaChoices, e \in EntryArguments,
          lookup \in {"ok", "raise"} :
         /\ all_values = TitleRows(h) \o <<AnalysisHeader, first, second, last>>
         /\ args = [entry |-> e.entry,
                    header_row_index |-> h,
                    max_charts_per_metric |-> 1,
                    create_local_report |-> e.create_local_report,
                    sheet |-> [formulas |-> SheetFormulas(all_values, h, refs),
                               lookup |-> lookup]]
    /\ header_info = Unused
    /\ dataframe = Unused
    /\ TrendUnused /\ ParserUnused
    /\ all_numeric_rows = Unused /\ charts = Unused /\ lookups = <<>>

\* extract_dataframe, and the return on an empty DataFrame
AnalyzeExtract ==
    /\ pc = "header_done"
    /\ args # Unused
    /\ dataframe' = ExtractDataframe(all_values, HeaderInfoOfIndex(args.header_row_index))
    /\ pc' = IF IsEmptyDf(dataframe') THEN "analysis_failed" ELSE "extracted"
    /\ UNCHANGED <<headerVars, trendVars, analysisVars, parserVars>>

\* Step 1: identify_all_numeric_rows, and the return when there is none
AnalyzeNumericRows ==
    /\ pc = "extracted"
    /\ all_numeric_rows' = IdentifyAllNumericRows(dataframe, args.sheet)
    /\ lookups' = lookups \o ClassifierLookups(all_numeric_rows', args.sheet, 1)
    /\ pc' = IF all_numeric_rows' = <<>> THEN "analysis_failed" ELSE "identified"
    /\ UNCHANGED <<headerVars, trendVars, dataframe, args, charts, parserVars>>

\* Step 2: the commentary of every numeric row
AnalyzeCommentaries ==
    /\ pc = "identified"
    /\ movements' = [k \in 1..Len(all_numeric_rows) |->
                        GenerateCommentaryForRow(dataframe, all_numeric_rows[k].index)]
    /\ pc' = "commented"
    /\ UNCHANGED <<headerVars, data, dataframe, analysisVars, parserVars>>

\* Step 3: the chart of every numeric row
AnalyzeCharts ==
    /\ pc = "commented"
    /\ charts' = [k \in 1..Len(all_numeric_rows) |->
                     CreateChartForRow(dataframe, all_numeric_rows[k].index,
                                       args.max_charts_per_metric,
                                       UseStackedForSummary(args))]
    /\ lookups' = lookups \o ChartLookupsFrom(dataframe, all_numeric_rows,
                                               UseStackedForSummary(args), 1)
    /\ pc' = "analysis_done"
    /\ UNCHANGED <<headerVars, trendVars, dataframe, args, all_numeric_rows, parserVars>>

NextAnalysis ==
    \/ IdentifyHeaderRow
    \/ AnalyzeExtract
    \/ AnalyzeNumericRows
    \/ AnalyzeCommentaries
    \/ AnalyzeCharts

SpecAnalysis == InitAnalysis /\ [][NextAnalysis]_vars

-----------------------------------------------------------------------------
(* Chart run: the same stages on sheets with four period columns of mixed
   kinds and every max_charts_per_metric up to MaxCharts *)

ChartHeaders ==
    {<<"Line Item", "JAN", "FEB", "Q1", "Q2">>,
     <<"Line Item", "Q1", "Q2", "JAN", "FEB">>,
     <<"Line Item", "Q1", "JAN", "Q2", "FY Total">>,
     <<"Line Item", "JAN", "Q1", "Full Year 2023", "Annual 2024">>,
     <<"Line Item", "Budget", "Q1", "Actual", "Year 2024">>,
     <<"Line Item", "Budget", "Actual", "Annual 2023", "Year 2024">>,
     <<"Line Item", "Q1 2024", "Q2 2024", "Q3 2024", "Quarter 4">>}

ChartCells == {"", "5"}
ChartLabels == {"Total Revenue", "Margin"}
ChartComponentRows ==
    {<<"Revenue", "3", "3", "3", "3">>, <<"Revenue", "", "3", "", "3">>}
ChartFirstRow == <<"Memo", "1", "1", "1", "1">>

\* analyze_all_rows, and analyze_dataframe writing no local report
ChartEntryArguments ==
    {[entry |-> "analyze_all_rows", create_local_report |-> TRUE],
     [entry |-> "analyze_dataframe", create_local_report |-> FALSE]}

InitChart ==
    /\ pc = "header_input"
    /\ \E header \in ChartHeaders, component \in ChartComponentRows,
          label \in ChartLabels, cells \in [1..4 -> ChartCells],
          e \in ChartEntryArguments, m \in 0..MaxCharts :
         /\ all_values = <<header, ChartFirstRow, component, <<label>> \o cells>>
         /\ args = [entry |-> e.entry,
                    header_row_index |-> 0,
                    max_charts_per_metric |-> m,
                    create_local_report |-> e.create_local_report,
                    sheet |-> [formulas |-> SheetFormulas(all_values, 0, <<>>),
                               lookup |-> "ok"]]
    /\ header_info = Unused
    /\ dataframe = Unused
    /\ TrendUnused /\ ParserUnused
    /\ all_numeric_rows = Unused /\ charts = Unused /\ lookups = <<>>

SpecChart == InitChart /\ [][NextAnalysis]_vars

-----------------------------------------------------------------------------
(* Analysis run: properties *)

Identified == args # Unused /\ pc \in {"identified", "commented", "analysis_done"}
Charted == args # Unused /\ pc = "analysis_done"

\* the row of the sheet (1-based) that holds the DataFrame row with index i:
\* the rows down to the header, then the data rows before it
SheetRowOf(i) == args.header_row_index + 1 + i + 1

\* the DataFrame rows that the formulas of the DataFrame row with index i
\* refer to in the sheet
RowsReferencedBy(i) ==
    LET cells == args.sheet.formulas[SheetRowOf(i)]
    IN {r - args.header_row_index - 2 :
          r \in UNION {IF StartsWith(cells[k], "=") THEN ReferencedSheetRows(cells[k])
                       ELSE {} : k \in 1..Len(cells)}}

RowLabel(i) == CellText(dataframe.rows[i + 1][1])
HasNonZeroData(i) == AbsSum(NumericValues(dataframe, i + 1)) > 0
ComponentIndices(component_rows) ==
    {component_rows[k].index : k \in 1..Len(component_rows)}

\* C1: when the formulas can be read and the formulas of a summary row refer to
\* rows of the DataFrame that are not summary rows and hold non-zero data, the
\* components of the summary row are exactly the rows referred to.
C1_FormulaPathReturnsReferencedRows ==
    Identified =>
      \A k \in 1..Len(all_numeric_rows) :
        LET row == all_numeric_rows[k]
            referenced == RowsReferencedBy(row.index)
        IN (/\ row.is_summary
            /\ args.sheet.lookup = "ok"
            /\ referenced # {}
            /\ referenced \subseteq 0..(Len(dataframe.rows) - 1)
            /\ \A i \in referenced : ~IsSummaryName(RowLabel(i)) /\ HasNonZeroData(i))
           => ComponentIndices(row.component_rows) = referenced

\* C2: no component of any row, from the formula path or from the heuristic
\* path, has a label that contains total, sum, net, gross or operating.
C2_NoComponentIsSummaryRow ==
    Identified =>
      \A k \in 1..Len(all_numeric_rows) :
        \A c \in 1..Len(all_numeric_rows[k].component_rows) :
          ~ContainsAny(Lower(all_numeric_rows[k].component_rows[c].name),
                       {"total", "sum", "net", "gross", "operating"})

\* the row with index i holds a period group of two periods or more
HasPeriodGroup(i) ==
    \E kind \in {"monthly", "quarterly", "annual", "other"} :
      Len(GroupPositions(SubSeq(dataframe.columns, 2, Len(dataframe.columns)),
                         ChartValues(dataframe, i), kind, 1)) >= 2

\* the values of the row with index i in the columns named, in their order
OwnValues(i, periods) ==
    [k \in 1..Len(periods) |->
        LET j == CHOOSE j \in 1..Len(dataframe.columns) : dataframe.columns[j] = periods[k]
        IN parse_financial_value_chart(dataframe.rows[i + 1][j])]

\* C5: where stacked charts are asked for, the chart of a row is stacked
\* exactly when the row is a summary row, components were found for it and it
\* holds a period group of two or more; every other row with such a group gets
\* a simple chart of its own values.
C5_StackedIffSummaryWithComponents ==
    (Charted /\ UseStackedForSummary(args)) =>
      \A k \in 1..Len(all_numeric_rows) :
        LET row == all_numeric_rows[k]
            stacked == row.is_summary /\ row.component_rows # <<>>
                         /\ HasPeriodGroup(row.index)
        IN /\ (charts[k].outcome = "stacked") <=> stacked
           /\ (HasPeriodGroup(row.index) /\ ~stacked)
                => /\ charts[k].outcome = "simple"
                   /\ [j \in 1..Len(charts[k].data) |-> Num(charts[k].data[j])]
                        = OwnValues(row.index, charts[k].periods)

\* C6: in a stacked chart, the value of every series at every period is the
\* value of the component row in the column of that period, 0 where the row
\* has none there.
C6_StackedSeriesAlignedToPeriods ==
    Charted =>
      \A k \in 1..Len(charts) :
        charts[k].outcome = "stacked" =>
          \A s \in 1..Len(charts[k].series) :
            LET own == OwnValues(charts[k].series[s].index, charts[k].periods)
            IN charts[k].series[s].data =
                 [j \in 1..Len(own) |-> IF IsNull(own[j]) THEN 0 ELSE own[j].num]

\* the scenario: header, Revenue, Cost, Total Profit whose formulas add the
\* Revenue and Cost rows, analysed with the header in the first row
ScenarioGrid ==
    <<AnalysisHeader, <<"Revenue", "1000", "1100">>, <<"Cost", "600", "660">>,
      <<"Total Profit", "400", "440">>>>
Scenario ==
    /\ Charted
    /\ all_values = ScenarioGrid
    /\ args.header_row_index = 0
    /\ args.sheet.lookup = "ok"
    /\ args.sheet.formulas[4] = <<"=B2+B3", "=C2+C3">>
    /\ UseStackedForSummary(args)

\* C8: in the scenario the header is reported as monthly / 2024, Total Profit
\* is a summary row of category profit whose components are exactly Revenue and
\* Cost, and its chart is stacked with two series over JAN 2024 and FEB 2024.
C8_EndToEndScenario ==
    Scenario =>
      /\ header_info.period_type = "monthly"
      /\ header_info.year = Str("2024")
      /\ Len(all_numeric_rows) = 3
      /\ all_numeric_rows[3].name = "Total Profit"
      /\ all_numeric_rows[3].is_summary
      /\ all_numeric_rows[3].type = "profit"
      /\ ComponentIndices(all_numeric_rows[3].component_rows) = {0, 1}
      /\ charts[3].outcome = "stacked"
      /\ Len(charts[3].series) = 2
      /\ charts[3].periods = <<"JAN 2024", "FEB 2024">>

\* the result of the heuristic strategy for the numeric row `row`
HeuristicResult(row) == HeuristicComponents(dataframe, row.index, row.name, row.index - 1)

\* the formula strategy gave no component for the numeric row `row`: the lookup
\* raised, or no referenced row with non-zero data was kept
NoTracedComponent(row) ==
    \/ args.sheet.lookup = "raise"
    \/ TracedComponents(dataframe, row.index, args.sheet) = <<>>

\* C17: the Component Resolver hands its caller a component set, never an
\* error: when the formula lookup raises or yields no component with non-zero
\* data the set is the result of the heuristic strategy, and it is empty when
\* the heuristic finds nothing either.
C17_FallsBackToHeuristic ==
    Identified =>
        /\ all_numeric_rows # Raise
        /\ \A k \in 1..Len(all_numeric_rows) :
              (all_numeric_rows[k].is_summary /\ NoTracedComponent(all_numeric_rows[k]))
              => /\ all_numeric_rows[k].component_rows = HeuristicResult(all_numeric_rows[k])
                 /\ HeuristicResult(all_numeric_rows[k]) = <<>>
                       => all_numeric_rows[k].component_rows = <<>>

C17_Witness ==
    /\ Identified
    /\ args.sheet.lookup = "raise"
    /\ \E k \in 1..Len(all_numeric_rows) :
          /\ all_numeric_rows[k].is_summary
          /\ all_numeric_rows[k].component_rows # <<>>
    /\ \E k \in 1..Len(all_numeric_rows) :
          /\ all_numeric_rows[k].is_summary
          /\ all_numeric_rows[k].component_rows = <<>>

\* the number of formula lookups issued so far for the sheet row r
LookupCount(r) == Cardinality({j \in 1..Len(lookups) : lookups[j] = r})

\* C18: during one analysis run the formula lookup is issued at most once for
\* each summary row: once by the Row Classifier, and neither again by the
\* Chart Planner nor after a lookup that failed.
C18_OneLookupPerSummaryRow ==
    args # Unused =>
        /\ \A j \in 1..Len(lookups) : LookupCount(lookups[j]) = 1
        /\ Identified =>
              \A k \in 1..Len(all_numeric_rows) :
                 LookupCount(FormulaSheetRow(all_numeric_rows[k].index))
                    = IF all_numeric_rows[k].is_summary THEN 1 ELSE 0

C18_Witness ==
    /\ Charted
    /\ args.sheet.lookup = "raise"
    /\ \E k \in 1..Len(all_numeric_rows) :
          /\ all_numeric_rows[k].is_summary
          /\ charts[k].outcome = "stacked"
          /\ LookupCount(FormulaSheetRow(all_numeric_rows[k].index)) = 1

\* the formula cells of the sheet row that holds the DataFrame row with index i
FormulaCellsOfRow(i) == FormulaCellsOf(args.sheet, SheetRowOf(i))

\* C27: for every header row index h of the grid, the formulas read for a
\* summary row are those of the sheet row that holds the summary row, and
\* each sheet row number referenced there is mapped to the Dataset row that
\* was built from that sheet row.
C27_FormulaRowsFollowHeaderIndex ==
    Identified =>
        \A k \in 1..Len(all_numeric_rows) :
           all_numeric_rows[k].is_summary =>
              /\ InSeq(SheetRowOf(all_numeric_rows[k].index), lookups)
              /\ ReferencedRows(dataframe, FormulaCellsOfRow(all_numeric_rows[k].index))
                    = RowsReferencedBy(all_numeric_rows[k].index)
                         \cap (0..(Len(dataframe.rows) - 1))

\* the position (1-based) of the DataFrame row with index i, the parsed cells
\* of the row at a position, and those of them from column `from` on (0-based)
\* that are not null
PositionOf(i) == CHOOSE pos \in 1..Len(dataframe.rows) : dataframe.index[pos] = i
ParsedCells(pos) ==
    [c \in 1..Len(dataframe.columns) |-> clean_financial_value(dataframe.rows[pos][c])]
ValuesFromColumn(pos, from) ==
    SelectPositions(ParsedCells(pos),
                    {c \in (from + 1)..Len(dataframe.columns) : ~IsNull(ParsedCells(pos)[c])},
                    1)

\* C29: the values the Row Classifier keeps for a row are the non-null parsed
\* values of all its cells from column 1 on, and the rows it lists are those
\* with at least one such value; the alignment starting at column 2 holds a
\* suffix of them, never more, and is never the one selected.
C29_ValuesFromColumnOne ==
    Identified =>
        /\ \A k \in 1..Len(all_numeric_rows) :
              all_numeric_rows[k].values
                 = ToList(ValuesFromColumn(PositionOf(all_numeric_rows[k].index), 1))
        /\ \A pos \in 1..Len(dataframe.rows) :
              /\ Len(ValuesFromColumn(pos, 2)) <= Len(ValuesFromColumn(pos, 1))
              /\ ValuesFromColumn(pos, 2)
                    = SubSeq(ValuesFromColumn(pos, 1),
                             Len(ValuesFromColumn(pos, 1)) - Len(ValuesFromColumn(pos, 2)) + 1,
                             Len(ValuesFromColumn(pos, 1)))
              /\ Len(ValuesFromColumn(pos, 1)) > 0
                    <=> \E k \in 1..Len(all_numeric_rows) :
                           all_numeric_rows[k].index = dataframe.index[pos]

\* a row whose column 1 holds a number, so that the alignment from column 2
\* has fewer numbers, and a row whose column 1 is empty, where the two
\* alignments hold the same numbers
C29_Witness ==
    /\ Identified
    /\ \E k \in 1..Len(all_numeric_rows) :
          /\ Len(all_numeric_rows[k].values) = 2
          /\ Len(ValuesFromColumn(PositionOf(all_numeric_rows[k].index), 2)) = 1
    /\ \E k \in 1..Len(all_numeric_rows) :
          /\ Len(all_numeric_rows[k].values) = 1
          /\ Len(ValuesFromColumn(PositionOf(all_numeric_rows[k].index), 2)) = 1

-----------------------------------------------------------------------------
(* Chart run: properties *)

\* the names of the periods of a kind where the row with index i has a value
PeriodsOfKind(i, kind) ==
    LET periods == SubSeq(dataframe.columns, 2, Len(dataframe.columns))
        positions == GroupPositions(periods, ChartValues(dataframe, i), kind, 1)
    IN [k \in 1..Len(positions) |-> periods[positions[k]]]

\* the group in the order monthly, quarterly, annual, other that is the first
\* to hold two periods of the row with index i; "" when there is none
FirstGroupInPriority(i) ==
    IF Len(PeriodsOfKind(i, "monthly")) >= 2 THEN "monthly"
    ELSE IF Len(PeriodsOfKind(i, "quarterly")) >= 2 THEN "quarterly"
    ELSE IF Len(PeriodsOfKind(i, "annual")) >= 2 THEN "annual"
    ELSE IF Len(PeriodsOfKind(i, "other")) >= 2 THEN "other"
    ELSE ""

OneChartFromFirstGroup(k) ==
    LET i == all_numeric_rows[k].index
    IN IF FirstGroupInPriority(i) # ""
       THEN /\ charts[k].total_charts = 1
            /\ charts[k].outcome \in {"simple", "stacked"}
            /\ charts[k].chart_type = FirstGroupInPriority(i)
            /\ charts[k].periods = PeriodsOfKind(i, FirstGroupInPriority(i))
       ELSE /\ charts[k].total_charts = 0
            /\ charts[k].outcome = "no_groups"

-----------------------------------------------------------------------------
(* Value Parser run: one call of one of the four copies of the parser on a  *)
(* drawn cell value                                                         *)

MaxParens == 1

ParserBodies == {"5", "1,200", "4.0", "21.0", "2,373", "abc", "", "0", "5 USD"}
ParserPrefixes == {"", "$", "-"}
ParserSuffixes == {"", "%", " "}

\* t inside n pairs of parentheses
RECURSIVE Parenthesized(_, _)
Parenthesized(t, n) ==
    IF n = 0 THEN t ELSE "(" \o Parenthesized(t, n - 1) \o ")"

ParserTexts ==
    {Parenthesized(p \o b \o s, n) :
        p \in ParserPrefixes, b \in ParserBodies, s \in ParserSuffixes, n \in 0..MaxParens}

\* the cells a parser is handed: None, floats, and text
ParserValues == {Null, Num(5), Num(-21)} \cup {Str(t) : t \in ParserTexts}

InitParser ==
    /\ pc = "parser_input"
    /\ raw_value \in ParserValues
    /\ parsed = Null
    /\ TrendUnused /\ HeaderUnused /\ dataframe = Unused /\ AnalysisUnused

\* the copy of the Row Classifier
CleanFinancialValue ==
    /\ pc = "parser_input"
    /\ parsed' = [parser |-> "clean_financial_value",
                  result |-> clean_financial_value(raw_value)]
    /\ pc' = "parsed"
    /\ UNCHANGED <<raw_value, trendVars, headerVars, dataframe, analysisVars>>

\* the copy of the Chart Planner
ParseFinancialValueChart ==
    /\ pc = "parser_input"
    /\ parsed' = [parser |-> "parse_financial_value",
                  result |-> parse_financial_value_chart(raw_value)]
    /\ pc' = "parsed"
    /\ UNCHANGED <<raw_value, trendVars, headerVars, dataframe, analysisVars>>

\* the copy of the formula path of the Component Resolver
ParseFinancialValueFormula ==
    /\ pc = "parser_input"
    /\ parsed' = [parser |-> "formula_path",
                  result |-> parse_financial_value_formula(raw_value)]
    /\ pc' = "parsed"
    /\ UNCHANGED <<raw_value, trendVars, headerVars, dataframe, analysisVars>>

\* the copy of the heuristic path of the Component Resolver
ParseFinancialValueHeuristic ==
    /\ pc = "parser_input"
    /\ parsed' = [parser |-> "heuristic_path",
                  result |-> parse_financial_value_heuristic(raw_value)]
    /\ pc' = "parsed"
    /\ UNCHANGED <<raw_value, trendVars, headerVars, dataframe, analysisVars>>

NextParser ==
    \/ CleanFinancialValue
    \/ ParseFinancialValueChart
    \/ ParseFinancialValueFormula
    \/ ParseFinancialValueHeuristic

SpecParser == InitParser /\ [][NextParser]_vars

-----------------------------------------------------------------------------
(* Value Parser: properties *)

\* what the copy of the parser named `parser` returns for a cell
ParserResult(parser, cell) ==
    CASE parser = "clean_financial_value" -> clean_financial_value(cell)
      [] parser = "parse_financial_value" -> parse_financial_value_chart(cell)
      [] parser = "formula_path" -> parse_financial_value_formula(cell)
      [] parser = "heuristic_path" -> parse_financial_value_heuristic(cell)

\* the run has parsed a text with the copy of the Row Classifier or of the
\* Chart Planner
ParsedText ==
    /\ pc = "parsed"
    /\ parsed.parser \in {"clean_financial_value", "parse_financial_value"}
    /\ IsStr(raw_value)

\* C11: whenever the parser (Row Classifier and Chart Planner copies) turns a
\* text X into a number v, it turns "(X)" into -v, also when X carries a
\* currency symbol, thousands separators or a percent sign.
C11_ParenthesizedIsNegated ==
    (ParsedText /\ IsNum(parsed.result))
        => ParserResult(parsed.parser, Str("(" \o raw_value.str \o ")"))
               = Negate(parsed.result)

\* the text with the currency symbols, thousands separators and percent signs
\* removed
WithoutSymbols(t) == RemoveChar(RemoveChar(RemoveChar(t, "$"), ","), "%")

IsParenthesized(t) == StartsWith(t, "(") /\ EndsWith(t, ")")

\* C12: the parser strips currency symbols, thousands separators and percent
\* signs before the numeric parse, a parenthesized number is negative, and
\* empty or whitespace-only text gives null: "$2,373" gives 2373, "4.0%" gives
\* 4, "(21.0)" gives -21.
C12_SymbolsStrippedAndParenthesesNegative ==
    ParsedText =>
        /\ Strip(raw_value.str) = "" => IsNull(parsed.result)
        /\ (~IsParenthesized(Strip(raw_value.str))
              /\ IsNum(ToFloat(WithoutSymbols(Strip(raw_value.str)))))
             => parsed.result = ToFloat(WithoutSymbols(Strip(raw_value.str)))
        /\ (IsParenthesized(Strip(raw_value.str))
              /\ IsUnsignedDecimal(Inner(Strip(raw_value.str))))
             => parsed.result = Num(0 - UnsignedValue(Inner(Strip(raw_value.str))))
        /\ raw_value = Str("$2,373") => parsed.result = Num(2373)
        /\ raw_value = Str("4.0%") => parsed.result = Num(4)
        /\ raw_value = Str("(21.0)") => parsed.result = Num(-21)

C12_Witness ==
    /\ ParsedText
    /\ parsed.parser = "clean_financial_value"
    /\ raw_value = Str("$2,373")
    /\ parsed.result = Num(2373)

\* the copies of the parser: Row Classifier, Chart Planner, and the formula
\* path and heuristic path of the Component Resolver
ParserNames ==
    {"clean_financial_value", "parse_financial_value", "formula_path", "heuristic_path"}

\* C28: every copy of the parser returns the same number or null for the same
\* cell, so that cells such as "$1,000" or "4.0%", numbers for the Row
\* Classifier, are numbers too when the row is tested as a component.
C28_ParsersAgree ==
    pc = "parsed" =>
        \A p \in ParserNames : ParserResult(p, raw_value) = parsed.result

-----------------------------------------------------------------------------
(* Header Locator scan run: identify_header_row on grids of single-row       *)
(* headers, year rows, period rows, blank rows and data rows                 *)

ScanGridRows ==
    {<<"", "JAN", "FEB", "MAR", "2024">>,
     <<"Metric", "Q1 2024", "Q2 2024", "Q3 2024", "Notes">>,
     <<"2024", "Jan", "Jan">>,
     <<"", "2023", "2023", "2023", "">>,
     <<"Metric", "Jan", "Feb", "Mar", "Full Year">>,
     <<"Revenue", "100", "110", "120", "330">>,
     <<"", "", "">>,
     <<>>}

InitScan ==
    /\ pc = "header_input"
    /\ all_values \in SeqsUpTo(ScanGridRows, MaxGridRows)
    /\ header_info = Unused
    /\ TrendUnused /\ dataframe = Unused /\ AnalysisUnused /\ ParserUnused

SpecScan == InitScan /\ [][NextHeader]_vars

-----------------------------------------------------------------------------
(* Header Locator scan: properties *)

\* the cell matches a month, quarter or year pattern
MatchesPeriodPattern(cell) ==
    \/ SearchMonth(Strip(Lower(cell)))
    \/ SearchQuarter(Strip(Lower(cell)))
    \/ IsStr(SearchYear(Strip(Lower(cell))))

\* the distinct period tokens of a row, and whether a year is detected in it
PeriodTokens(row) == {row[k] : k \in {j \in 1..Len(row) : MatchesPeriodPattern(row[j])}}
HasYear(row) == \E k \in 1..Len(row) : IsStr(SearchYear(Strip(Lower(row[k]))))

\* the row has at least 3 period tokens and a detected year
QualifiesAsHeader(row) == Cardinality(PeriodTokens(row)) >= 3 /\ HasYear(row)

QualifyingRows(grid) == {i \in 1..Len(grid) : QualifiesAsHeader(grid[i])}

\* the located header is a row of the grid as it stands, with periods: the
\* result of the single-row scan
SingleRowReturned ==
    /\ header_info.periods # <<>>
    /\ header_info.header_row_index + 1 \in 1..Len(all_values)
    /\ header_info.header_row = all_values[header_info.header_row_index + 1]

\* C13: the header returned by the single-row scan is the lowest-index row
\* that has at least 3 period tokens and a detected year, a multi-row pair is
\* considered only when no row qualifies, and ["", "JAN", "FEB", "MAR", "2024"]
\* is reported as monthly with year "2024".
C13_LowestQualifyingRowIsHeader ==
    pc = "header_done" =>
        /\ QualifyingRows(all_values) # {} =>
              /\ SingleRowReturned
              /\ header_info.header_row_index = Least(QualifyingRows(all_values)) - 1
        /\ QualifyingRows(all_values) = {} => ~SingleRowReturned
        /\ all_values = << <<"", "JAN", "FEB", "MAR", "2024">> >> =>
              /\ header_info.period_type = "monthly"
              /\ header_info.year = Str("2024")

\* neither the single-row scan nor the multi-row fallback found a header
NothingQualifies(grid) == SingleRowHeaders(grid) = {} /\ MultiRowHeaders(grid) = {}

\* C14: when no row qualifies as a single-row header and no adjacent pair as a
\* multi-row header, the first non-empty row is returned as the header with
\* period_type unknown, no periods and no year; a grid with no non-empty row
\* gives an empty header at index 0 rather than a failure.
C14_LastResortNeverFails ==
    (pc = "header_done" /\ NothingQualifies(all_values)) =>
        /\ header_info.period_type = "unknown"
        /\ header_info.periods = <<>>
        /\ header_info.year = Null
        /\ header_info.header_row_index \in Nat
        /\ \A i \in 1..Len(all_values) :
              (~IsBlankRow(all_values[i]) /\ \A k \in 1..(i - 1) : IsBlankRow(all_values[k]))
              => /\ header_info.header_row_index = i - 1
                 /\ header_info.header_row = all_values[i]
        /\ (\A i \in 1..Len(all_values) : IsBlankRow(all_values[i]))
              => header_info.header_row = <<>>

C14_Witness ==
    /\ pc = "header_done"
    /\ all_values = << <<"", "", "">>, <<"Revenue", "100", "110", "120", "330">> >>
    /\ NothingQualifies(all_values)
    /\ header_info.header_row_index = 1
    /\ header_info.period_type = "unknown"

\* C19: in every HeaderInfo returned by the single-row scan or the multi-row
\* fallback (the results that carry periods), periods is the header row
\* without its column 0: the same labels in the same order, one for every
\* non-label column.
C19_PeriodsAreHeaderWithoutLabel ==
    (pc = "header_done" /\ header_info.periods # <<>>) =>
        header_info.periods = Tail(header_info.header_row)

-----------------------------------------------------------------------------
(* Pipeline run: read_worksheet on sheets whose header is a year row and a   *)
(* period row, in either order, or a single row                              *)

PipelineYearRows == {<<"", "2023", "2023", "2023">>, <<"Metric", "2023", "2023", "2023">>}
PipelinePeriodRows == {<<"Metric", "Jan", "Feb", "Mar">>, <<"", "Jan", "Feb", "Mar">>}
PipelineSingleRows == {<<"Line Item", "JAN 2024", "FEB 2024", "MAR 2024">>}
PipelineDataRows ==
    {<<"Revenue", "100", "110", "120">>, <<"Cost", "60", "66", "(72)">>, <<"", "", "", "">>}

\* the header rows of a sheet, as they stand in the grid
PipelineHeaders ==
    {<<y, p>> : y \in PipelineYearRows, p \in PipelinePeriodRows}
    \cup {<<p, y>> : y \in PipelineYearRows, p \in PipelinePeriodRows}
    \cup {<<h>> : h \in PipelineSingleRows}

InitPipeline ==
    /\ pc = "header_input"
    /\ \E h \in PipelineHeaders, d \in SeqsUpTo(PipelineDataRows, MaxGridRows - 1) :
          all_values = h \o d
    /\ header_info = Unused
    /\ dataframe = Unused
    /\ TrendUnused /\ AnalysisUnused /\ ParserUnused

SpecPipeline == InitPipeline /\ [][NextTable]_vars

-----------------------------------------------------------------------------
(* Pipeline: properties *)

\* the Header Locator located a multi-row header: the header it returned has
\* periods and is not the row of the grid at the returned index
MultiRowLocated ==
    /\ header_info.periods # <<>>
    /\ header_info.header_row # all_values[header_info.header_row_index + 1]

\* C15: when the Header Locator located a multi-row header, the column
\* identifiers of the Dataset built by the pipeline are the combined labels
\* (such as "JAN 2023"), not the raw cells of the period row (stated for a
\* Dataset that holds data rows).
C15_CombinedLabelsAreColumns ==
    (pc = "table_done" /\ MultiRowLocated /\ dataframe.rows # <<>>) =>
        dataframe.columns =
            [c \in 1..Len(header_info.header_row) |-> Strip(header_info.header_row[c])]

\* the row of the grid that the Dataset row at position i was built from
GridRowOf(i) == all_values[header_info.header_row_index + 2 + dataframe.index[i]]

\* C26: after a multi-row header is located, neither the year row nor the
\* period row is a data row of the Dataset, whether the year row stands
\* directly above the period row or directly below it.
C26_HeaderRowsAreNotData ==
    (pc = "table_done" /\ MultiRowLocated) =>
        \A i \in 1..Len(dataframe.rows) :
           GridRowOf(i) \notin PipelineYearRows \cup PipelinePeriodRows

-----------------------------------------------------------------------------
(* Hierarchy run: _fix_indented_row_headers on the DataFrame of a drawn      *)
(* sheet, at the point where _clean_dataframe calls it                       *)

HierarchyHeader == <<"Section", "Metric", "JAN 2024", "FEB 2024">>

\* data rows with the label in column 0, in column 1 under section markers, and
\* in column 2
HierarchyRows ==
    {<<"REVENUE", "", "", "">>,
     <<"Growth Drivers", "", "", "">>,
     <<"", "Product Sales", "100", "110">>,
     <<"", "Widgets", "5", "6">>,
     <<"", "", "Revenue", "100">>,
     <<"Revenue", "100", "110", "120">>}

\* the DataFrame that _clean_dataframe hands to _fix_indented_row_headers
PreparedDataframe(grid) ==
    StripColumns(DropNaColumns(DropNaRows(NewDataFrame(Tail(grid), Head(grid)))))

InitHierarchy ==
    /\ pc = "hierarchy_input"
    /\ \E d \in SeqsUpTo(HierarchyRows, MaxGridRows) : all_values = <<HierarchyHeader>> \o d
    /\ dataframe = PreparedDataframe(all_values)
    /\ header_info = Unused
    /\ TrendUnused /\ AnalysisUnused /\ ParserUnused

FixIndentedRowHeadersStep ==
    /\ pc = "hierarchy_input"
    /\ dataframe' = FixIndentedRowHeaders(dataframe)
    /\ pc' = "hierarchy_done"
    /\ UNCHANGED <<headerVars, trendVars, analysisVars, parserVars>>

NextHierarchy == FixIndentedRowHeadersStep

SpecHierarchy == InitHierarchy /\ [][NextHierarchy]_vars

-----------------------------------------------------------------------------
(* Hierarchy run: properties *)

\* the DataFrame the resolver was handed, and the header column it discovered
\* in it (0-based)
HierarchyInput == PreparedDataframe(all_values)
DiscoveredHeaderColumn == FindHeaderColumn(HierarchyInput)

\* the resolver ran: the DataFrame has rows and at least two columns
ResolverRan ==
    /\ pc = "hierarchy_done"
    /\ ~IsEmptyDf(HierarchyInput)
    /\ Len(HierarchyInput.columns) >= 2

\* C20: after the resolver ran with discovered header column k, column 0 holds
\* the merged label as text, the columns 1..k are removed, every column after
\* column k is kept with its cells, in the original order, and the rows are the
\* same in number and index.
C20_OneLabelColumn ==
    ResolverRan =>
        /\ dataframe.columns =
              <<HierarchyInput.columns[1]>>
                 \o SubSeq(HierarchyInput.columns, DiscoveredHeaderColumn + 2,
                           Len(HierarchyInput.columns))
        /\ Len(dataframe.rows) = Len(HierarchyInput.rows)
        /\ dataframe.index = HierarchyInput.index
        /\ \A i \in 1..Len(dataframe.rows) :
              /\ IsStr(dataframe.rows[i][1])
              /\ Tail(dataframe.rows[i]) =
                    SubSeq(HierarchyInput.rows[i], DiscoveredHeaderColumn + 2,
                           Len(HierarchyInput.columns))

C20_Witness ==
    /\ ResolverRan
    /\ DiscoveredHeaderColumn = 1
    /\ Len(dataframe.rows) >= 2
    /\ dataframe.columns = <<"Section", "JAN 2024", "FEB 2024">>

-----------------------------------------------------------------------------
(* Period token run: identify_header_row on grids whose rows repeat a        *)
(* period, match one cell under two patterns, or lack a year                 *)

TokenGridRows ==
    {<<"2024", "Jan", "Jan">>,
     <<"Q1 Jan 2024", "Feb 2024">>,
     <<"Metric", "Jan", "Feb", "Mar">>,
     <<"Line Item", "JAN 2024", "FEB 2024">>,
     <<"", "JAN", "FEB", "MAR", "2024">>,
     <<"Revenue", "100", "110", "120">>}

InitTokens ==
    /\ pc = "header_input"
    /\ all_values \in SeqsUpTo(TokenGridRows, MaxGridRows)
    /\ header_info = Unused
    /\ TrendUnused /\ dataframe = Unused /\ AnalysisUnused /\ ParserUnused

SpecTokens == InitTokens /\ [][NextHeader]_vars

-----------------------------------------------------------------------------
(* Period token run: properties *)

\* the grid row that the located header names
ReturnedRow == all_values[header_info.header_row_index + 1]

\* C21: a row returned by the single-row scan has at least 3 distinct period
\* tokens and a detected year; a row with a repeated period, with one cell
\* matched under two patterns, or with no year is never returned by it.
C21_SingleRowHeaderHasThreeDistinctTokens ==
    (pc = "header_done" /\ SingleRowReturned) => QualifiesAsHeader(ReturnedRow)

-----------------------------------------------------------------------------
(* Window run: the analysis stages on sheets with a summary row below up to  *)
(* MaxRowsAbove rows that the heuristic takes for its components             *)

MaxRowsAbove == 12

WindowComponentRow == <<"Product Revenue", "10", "20">>
WindowSummaryRow == <<"Total Revenue", "100", "200">>

InitWindow ==
    /\ pc = "header_input"
    /\ \E n \in 0..MaxRowsAbove, e \in EntryArguments, lookup \in {"ok", "raise"} :
         /\ all_values = <<AnalysisHeader>> \o [k \in 1..n |-> WindowComponentRow]
                            \o <<WindowSummaryRow>>
         /\ args = [entry |-> e.entry,
                    header_row_index |-> 0,
                    max_charts_per_metric |-> 1,
                    create_local_report |-> e.create_local_report,
                    sheet |-> [formulas |-> SheetFormulas(all_values, 0, <<>>),
                               lookup |-> lookup]]
    /\ header_info = Unused
    /\ dataframe = Unused
    /\ TrendUnused /\ ParserUnused
    /\ all_numeric_rows = Unused /\ charts = Unused /\ lookups = <<>>

SpecWindow == InitWindow /\ [][NextAnalysis]_vars

-----------------------------------------------------------------------------
(* Window run: properties *)

\* the rows from max(0, s - 10) to s - 1 that pass the tests of the heuristic
\* for the summary row `row`
KeptInWindow(row) ==
    {i \in Max(0, row.index - HeuristicWindowSize)..(row.index - 1) :
        HeuristicKeeps(row.name, RowLabel(i), HeuristicValues(dataframe, i))}

\* C22: in the heuristic fallback every row from max(0, s - 10) to s - 1 is
\* examined as a candidate component of the summary row at index s, Dataset
\* row 0 included, and no row outside that window is: the components are
\* the rows of the window that pass the tests.
C22_WindowIsTenRowsAbove ==
    Identified =>
        \A k \in 1..Len(all_numeric_rows) :
           all_numeric_rows[k].is_summary
           => ComponentIndices(all_numeric_rows[k].component_rows)
                 = KeptInWindow(all_numeric_rows[k])

-----------------------------------------------------------------------------
(* Merge run: _fix_indented_row_headers on sheets of section rows,           *)
(* subsection rows and metric rows, labels in column 0 and metrics in        *)
(* column 1                                                                  *)

MaxMergeRows == 4

MergeRows ==
    {<<"REVENUE", "", "", "">>,
     <<"COSTS", "", "", "">>,
     <<"Growth Drivers", "", "", "">>,
     <<"", "Product Sales", "100", "110">>,
     <<"Growth Drivers", "Product Sales", "100", "110">>}

InitMerge ==
    /\ pc = "hierarchy_input"
    /\ \E d \in SeqsUpTo(MergeRows, MaxMergeRows) : all_values = <<HierarchyHeader>> \o d
    /\ dataframe = PreparedDataframe(all_values)
    /\ header_info = Unused
    /\ TrendUnused /\ AnalysisUnused /\ ParserUnused

SpecMerge == InitMerge /\ [][NextHierarchy]_vars

-----------------------------------------------------------------------------
(* Merge run: properties *)

Greatest(S) == CHOOSE i \in S : \A j \in S : i >= j

\* the merge ran with the labels of column 0 as section context
MergeRan == ResolverRan /\ DiscoveredHeaderColumn = 1

\* the label candidate of row i (1-based), the metric name in its sibling
\* column, and the merged label the resolver gave the row
LabelCandidate(i) == Strip(CellText(HierarchyInput.rows[i][1]))
SiblingMetric(i) == Strip(CellText(HierarchyInput.rows[i][2]))
MergedLabel(i) == CellText(dataframe.rows[i][1])

\* the kinds of rows: a section row, a row with subsection-like text, a
\* subsection row (the sibling column holds no metric name), an ordinary row
IsSectionRow(i) == IsUpper(LabelCandidate(i)) /\ Len(LabelCandidate(i)) > 2
HasSubsectionText(i) ==
    /\ LabelCandidate(i) # ""
    /\ ~IsUpper(LabelCandidate(i))
    /\ Len(LabelCandidate(i)) > 3
HasMetricName(i) == IsNamed(SiblingMetric(i))
IsSubsectionRow(i) == HasSubsectionText(i) /\ ~HasMetricName(i)
IsOrdinaryRow(i) == ~IsSectionRow(i) /\ ~IsSubsectionRow(i) /\ HasMetricName(i)

\* the section and the parent in force at row i: the last section row above
\* it, and the last subsection row between that section row and row i
SectionRowsBefore(i) == {j \in 1..(i - 1) : IsSectionRow(j)}
LastSectionBefore(i) ==
    IF SectionRowsBefore(i) = {} THEN 0 ELSE Greatest(SectionRowsBefore(i))
CurrentSection(i) ==
    IF SectionRowsBefore(i) = {} THEN "" ELSE LabelCandidate(LastSectionBefore(i))
SubsectionRowsBefore(i) ==
    {j \in (LastSectionBefore(i) + 1)..(i - 1) : IsSubsectionRow(j)}
CurrentParent(i) ==
    IF SubsectionRowsBefore(i) = {} THEN ""
    ELSE LabelCandidate(Greatest(SubsectionRowsBefore(i)))

\* C23: a row whose label candidate is non-empty, not upper-case and longer
\* than 3 characters starts a subsection, labelled "{section} - {label}", only
\* when its sibling column holds no metric name; when the sibling column holds
\* a metric name the row is an ordinary row and its merged label contains
\* that metric name.
C23_SubsectionOnlyWithoutMetric ==
    MergeRan =>
        \A i \in 1..Len(dataframe.rows) :
           HasSubsectionText(i) =>
              IF HasMetricName(i)
              THEN Contains(MergedLabel(i), SiblingMetric(i))
              ELSE MergedLabel(i) = CurrentSection(i) \o " - " \o LabelCandidate(i)

\* C24: walking the rows top to bottom, a section row is labelled with the
\* section name alone and clears the parent; an ordinary row below a section
\* is labelled "{section} - {metric}" while no subsection row has followed
\* the section, and "{section} - {parent} - {metric}" after a subsection row,
\* until the next section or subsection row.
C24_LabelsFollowSectionAndParent ==
    MergeRan =>
        \A i \in 1..Len(dataframe.rows) :
           /\ IsSectionRow(i) => MergedLabel(i) = LabelCandidate(i)
           /\ (IsOrdinaryRow(i) /\ SectionRowsBefore(i) # {}) =>
                 MergedLabel(i) =
                    IF CurrentParent(i) = ""
                    THEN CurrentSection(i) \o " - " \o SiblingMetric(i)
                    ELSE CurrentSection(i) \o " - " \o CurrentParent(i)
                            \o " - " \o SiblingMetric(i)

\* C30: every merged label is empty or starts with label text: no label
\* begins with the separator " - ", whether or not a section has been seen.
C30_NoLabelStartsWithSeparator ==
    MergeRan =>
        \A i \in 1..Len(dataframe.rows) : ~StartsWith(MergedLabel(i), " - ")

=============================================================================
